---- MODULE Spec2Model ----
(***************************************************************************)
(* URL shortener API (Bun + SQLite): the request pipeline (global          *)
(* middleware chain, router, route middleware, controllers) and the        *)
(* persistent store (users, urls, analytics), as a state machine.          *)
(*                                                                         *)
(* Time is counted in days: one tick of `now` is one day.  Strings that    *)
(* the code inspects character by character (short codes, path segments)   *)
(* are sequences of one-character strings.                                  *)
(***************************************************************************)
EXTENDS Integers, Sequences, FiniteSets, Bags, TLC

\* ------------------------------------------------------------------ bounds
MaxTime == 2        \* the clock runs over 0..MaxTime
MaxLimit == 2       \* configured API_RATE_LIMIT ranges over 0..MaxLimit
MaxUrlRows == 1     \* rows ever inserted into urls through the API
MaxClickRows == 2   \* rows ever inserted into analytics through the API
MaxUserRows == 2    \* rows ever inserted into users through the API
MaxInFlight == 2    \* register requests suspended at the password hash
MaxTokens == 1      \* tokens the clients keep
SeedUrls == 2       \* demo URLs the seed script inserts (a prefix of its list)
SeedMaxClicks == 0  \* simulated clicks per seeded URL range over 0..SeedMaxClicks
SeedRandomUrls == 0 \* anonymous URLs with random codes the seed script inserts
MaxChain == 3       \* middlewares handed to compose
MaxInvocations == 2 \* invocations of one composed chain in progress together

\* --------------------------------------------------------------- constants
JwtExpiresIn == 1   \* JWT_EXPIRES_IN "24h", in days
MaxAttempts == 10   \* collision retries of createShortUrl
CodeLength == 6     \* generateShortCode's default length

Null == 0 - 1       \* SQL NULL / JS null in an integer column or field

\* --------------------------------------------------------------- characters
LowerChars == {"a","b","c","d","e","f","g","h","i","j","k","l","m",
               "n","o","p","q","r","s","t","u","v","w","x","y","z"}
UpperChars == {"A","B","C","D","E","F","G","H","I","J","K","L","M",
               "N","O","P","Q","R","S","T","U","V","W","X","Y","Z"}
DigitChars == {"0","1","2","3","4","5","6","7","8","9"}
\* the alphabet generateShortCode samples from
characters == LowerChars \cup UpperChars \cup DigitChars

Range(s) == {s[i] : i \in 1..Len(s)}

\* F(v) with v computed once (a LET definition is computed again at each use)
Bind(v, F(_)) == CHOOSE x \in {F(y) : y \in {v}} : TRUE

\* short codes and path segments used by the clients of the model
S_health == <<"h","e","a","l","t","h">>
S_api == <<"a","p","i">>
S_urls == <<"u","r","l","s">>
S_auth == <<"a","u","t","h">>
S_register == <<"r","e","g","i","s","t","e","r">>
S_login == <<"l","o","g","i","n">>
S_profile == <<"p","r","o","f","i","l","e">>
S_analytics == <<"a","n","a","l","y","t","i","c","s">>
P_code == <<":","c","o","d","e">>
S_github == <<"g","i","t","h","u","b">>
S_google == <<"g","o","o","g","l","e">>
S_so == <<"s","o">>
S_reddit == <<"r","e","d","d","i","t">>
S_twitter == <<"t","w","i","t","t","e","r">>
S_bunjs == <<"b","u","n","j","s">>
S_aB3xYz == <<"a","B","3","x","Y","z">>
NoCode == << >>     \* customCode absent (undefined or "", both falsy)

\* user names, e-mail addresses, passwords and URLs used by the clients
N_demo_user == <<"d","e","m","o","_","u","s","e","r">>
N_alice == <<"a","l","i","c","e">>
N_bob == <<"b","o","b">>
N_carol == <<"c","a","r","o","l">>
E_demo == <<"d","e","m","o","@","e","x","a","m","p","l","e",".","c","o","m">>
E_alice == <<"a","l","i","c","e","@","e","x","a","m","p","l","e",".","c","o","m">>
E_bob == <<"b","o","b","@","e","x","a","m","p","l","e",".","c","o","m">>
E_carol == <<"c","a","r","o","l","@","e","x","a","m","p","l","e",".","c","o","m">>
E_nodot == <<"c","a","r","o","l","@","e","x","a","m","p","l","e">>
PW_Demo1234 == <<"D","e","m","o","1","2","3","4">>
PW_Wrong == <<"W","r","o","n","g","P","a","s","s","w","o","r","d">>
\* a URL is the text the client sent, kept as its scheme and the rest
U_example == [scheme |-> "https:", rest |-> "//example.com"]
U_custom == [scheme |-> "https:", rest |-> "//example.com/custom"]
U_github == [scheme |-> "https:", rest |-> "//github.com"]
U_google == [scheme |-> "https:", rest |-> "//google.com"]
U_stackoverflow == [scheme |-> "https:", rest |-> "//stackoverflow.com"]
U_reddit == [scheme |-> "https:", rest |-> "//reddit.com"]
U_twitter == [scheme |-> "https:", rest |-> "//twitter.com"]
U_none == [scheme |-> "", rest |-> ""]

\* ------------------------------------------------------------------- state
VARIABLES
  users,           \* rows of table users
  urls,            \* rows of table urls
  analytics,       \* rows of table analytics
  seq,             \* AUTOINCREMENT counters (sqlite_sequence) of the three tables
  now,             \* the system clock, in days
  maxRequests,     \* API_RATE_LIMIT as configured at start-up
  windowMs,        \* RATE_LIMIT_WINDOW as configured at start-up, in days
  rateLimitStore,  \* key -> record of the rate limiter
  inFlight,        \* register requests suspended at `await hashPassword`
  wallet,          \* tokens the server issued that clients still hold
  boot,            \* the AUTOINCREMENT counters when the server started
  resp,            \* the response the last step sent (NoResp when it sent none)
  traffic,         \* history: key -> what the server received from it in the
                   \* key's current window
  creators,        \* history: for the rows of urls created since start-up, short
                   \* code -> user of the valid token the POST carried
  received,        \* history: the account fields and the custom code of the
                   \* body the last step received (empty when it received none)
  sender,          \* history: the rate-limit key of the request the last step
                   \* received (NoKey when it received none)
  run              \* one invocation of a composed chain: the middlewares, the
                   \* inner handler, compose's `index`, the calls not yet
                   \* returned and the logic that has run so far

vars == <<users, urls, analytics, seq, now, maxRequests, windowMs, rateLimitStore,
          inFlight, wallet, boot, resp, traffic, creators, received, sender,
          run>>

\* ------------------------------------------------------- AuthService, utils
\* bcrypt.hash: the hash determines which password verifies against it
hashPassword(password) == [alg |-> "bcrypt", of |-> password]

verifyPassword(password, hash) == hash.of = password

\* jwt.sign with expiresIn: the payload, the expiry and the signing secret
generateToken(payload) ==
  [userId |-> payload.userId, username |-> payload.username,
   exp |-> now + JwtExpiresIn, sig |-> "server"]

\* a token signed with another secret
ForgedToken == [userId |-> 1, username |-> N_demo_user, exp |-> MaxTime + 1, sig |-> "forged"]

NoUser == [userId |-> Null, username |-> << >>]

\* variant: the expiry is not looked at
verifyTokenIgnoresExpiry(token) ==
  IF token.sig = "server"
  THEN [userId |-> token.userId, username |-> token.username]
  ELSE NoUser

\* jwt.verify: bad signature or now >= exp throws, and the catch returns null
verifyToken(token) ==
  IF token.sig = "server" /\ now < token.exp
  THEN [userId |-> token.userId, username |-> token.username]
  ELSE NoUser

\* The Authorization header after split(" "): absent, or its parts
NoHeader == [present |-> FALSE, parts |-> 0, scheme |-> "", token |-> ForgedToken]
Bearer(token) == [present |-> TRUE, parts |-> 2, scheme |-> "Bearer", token |-> token]

extractTokenFromHeader(authHeader) ==
  IF ~authHeader.present THEN [found |-> FALSE, token |-> ForgedToken]
  ELSE IF authHeader.parts # 2 \/ authHeader.scheme # "Bearer"
       THEN [found |-> FALSE, token |-> ForgedToken]
       ELSE [found |-> TRUE, token |-> authHeader.token]

isValidUrl(url) ==
  url.scheme # "" /\ (url.scheme = "http:" \/ url.scheme = "https:")

UsernameChars == characters \cup {"_"}
CustomCodeChars == characters \cup {"_", "-"}

isValidUsername(username) ==
  /\ Len(username) >= 3 /\ Len(username) <= 20
  /\ Range(username) \subseteq UsernameChars

isValidPassword(password) ==
  /\ Len(password) >= 8
  /\ Range(password) \cap UpperChars # {}
  /\ Range(password) \cap LowerChars # {}
  /\ Range(password) \cap DigitChars # {}

\* /^[^\s@]+@[^\s@]+\.[^\s@]+$/
isValidEmail(email) ==
  /\ " " \notin Range(email)
  /\ Cardinality({i \in 1..Len(email) : email[i] = "@"}) = 1
  /\ \E i \in 2..Len(email) :
       /\ email[i] = "@"
       /\ \E j \in (i + 2)..(Len(email) - 1) : email[j] = "."

\* /^[a-zA-Z0-9_-]{3,20}$/
isValidCustomCode(customCode) ==
  /\ Len(customCode) >= 3 /\ Len(customCode) <= 20
  /\ Range(customCode) \subseteq CustomCodeChars

\* the values generateShortCode can return, among the codes of the model
GeneratedCodes ==
  {c \in {S_health, S_aB3xYz, S_bunjs, S_so} :
     Len(c) = CodeLength /\ Range(c) \subseteq characters}

\* ---------------------------------------------------------------- responses
\* What a response says: who produced it (op), its status, the error text of a
\* failure, the short code and URL it names (Location of a redirect,
\* originalUrl of a creation), the click total it reports, and `caller`: the
\* user of the valid bearer token the request carried (Null without one).
\* `body` is the kind of body: "success" is the JSON {success: true, ...},
\* "error" the JSON {success: false, error}, "json" other JSON, "text" plain
\* text, "html" a page, "none" no body, and "exception" stands for a handler
\* that threw instead of returning.  `user` is the user object of the body,
\* `list` the rows of a listing (by id) and `cors` whether the three
\* Access-Control-Allow-* headers are set.
NoUserObject == [id |-> Null]

Response(op, status, error, caller, code, url, clicks) ==
  [op |-> op, status |-> status, error |-> error, caller |-> caller,
   code |-> code, url |-> url, clicks |-> clicks,
   body |-> IF error # "" THEN "error" ELSE "success",
   user |-> NoUserObject, list |-> << >>, cors |-> FALSE]

NoResp == [Response("none", 0, "", Null, NoCode, U_none, Null) EXCEPT !.body = "none"]

Fail(op, status, error, ctx) ==
  Response(op, status, error, ctx.caller, ctx.code, U_none, Null)

\* error.message of the TypeError that destructuring undefined raises
TypeErrorMessage == "Right side of assignment cannot be destructured"

\* a handler that throws: the exception, in place of a response
Exception(op, message, ctx) ==
  [Response(op, 0, message, ctx.caller, ctx.code, U_none, Null) EXCEPT !.body = "exception"]

Thrown(r) == r.body = "exception"

\* new Response(text, {status}): a plain-text body
Text(op, status, text, ctx) ==
  [Response(op, status, text, ctx.caller, ctx.code, U_none, Null) EXCEPT !.body = "text"]

\* -------------------------------------------------------------- the store
NoUserRow == [id |-> Null, username |-> << >>, email |-> << >>,
              password_hash |-> hashPassword(<< >>), created_at |-> Null]
NoUrlRow == [id |-> Null, short_code |-> NoCode, original_url |-> U_none,
             user_id |-> Null, clicks |-> 0, created_at |-> Null, expires_at |-> Null]

\* statement.get(): the row, or undefined (NoUserRow / NoUrlRow)
findUserByUsername(username) ==
  IF \E u \in users : u.username = username
  THEN CHOOSE u \in users : u.username = username ELSE NoUserRow

findUserByEmail(email) ==
  IF \E u \in users : u.email = email
  THEN CHOOSE u \in users : u.email = email ELSE NoUserRow

\* SELECT id, username, email, created_at FROM users WHERE id = ?
findUserById(id) ==
  Bind(IF \E u \in users : u.id = id
       THEN CHOOSE u \in users : u.id = id ELSE NoUserRow, LAMBDA u :
    [id |-> u.id, username |-> u.username, email |-> u.email,
     created_at |-> u.created_at])

\* variant: the lookup leaves out the rows whose expiry has passed
findUrlByShortCodeLive(code) ==
  IF \E u \in urls : u.short_code = code /\ ~(u.expires_at # Null /\ u.expires_at < now)
  THEN CHOOSE u \in urls : u.short_code = code /\ ~(u.expires_at # Null /\ u.expires_at < now)
  ELSE NoUrlRow

findUrlByShortCode(code) ==
  IF \E u \in urls : u.short_code = code
  THEN CHOOSE u \in urls : u.short_code = code ELSE NoUrlRow

\* variant: the users table without its UNIQUE constraints
createUserNoUnique(username, email, passwordHash) ==
  [ok |-> TRUE,
   users |-> users \cup {[id |-> seq.users + 1, username |-> username,
                          email |-> email, password_hash |-> passwordHash,
                          created_at |-> now]},
   seq |-> [seq EXCEPT !.users = @ + 1],
   lastInsertRowid |-> seq.users + 1]

\* INSERT INTO users: UNIQUE(username), UNIQUE(email) abort the statement
createUser(username, email, passwordHash) ==
  IF \E u \in users : u.username = username \/ u.email = email
  THEN [ok |-> FALSE, users |-> users, seq |-> seq, lastInsertRowid |-> Null]
  ELSE [ok |-> TRUE,
        users |-> users \cup {[id |-> seq.users + 1, username |-> username,
                               email |-> email, password_hash |-> passwordHash,
                          created_at |-> now]},
        seq |-> [seq EXCEPT !.users = @ + 1],
        lastInsertRowid |-> seq.users + 1]

\* INSERT INTO urls: UNIQUE(short_code) aborts the statement; clicks DEFAULT 0,
\* created_at DEFAULT CURRENT_TIMESTAMP
createUrl(shortCode, url, userId, expiresAt) ==
  IF \E u \in urls : u.short_code = shortCode
  THEN [ok |-> FALSE, urls |-> urls, seq |-> seq]
  ELSE [ok |-> TRUE,
        urls |-> urls \cup {[id |-> seq.urls + 1, short_code |-> shortCode,
                             original_url |-> url, user_id |-> userId,
                             clicks |-> 0, created_at |-> now,
                             expires_at |-> expiresAt]},
        seq |-> [seq EXCEPT !.urls = @ + 1]]

\* variant: the counter is written from a value read before another click
incrementClicksStale(rows, id) ==
  {IF u.id = id THEN [u EXCEPT !.clicks = 1] ELSE u : u \in rows}

\* variant: the UPDATE lacks its WHERE clause
incrementClicksAll(rows, id) ==
  {[u EXCEPT !.clicks = @ + 1] : u \in rows}

\* UPDATE urls SET clicks = clicks + 1 WHERE id = ?
incrementClicks(rows, id) ==
  {IF u.id = id THEN [u EXCEPT !.clicks = @ + 1] ELSE u : u \in rows}

\* INSERT INTO analytics (url_id, ...)
logClick(urlId) ==
  [analytics |-> analytics \cup {[id |-> seq.analytics + 1, url_id |-> urlId]},
   seq |-> [seq EXCEPT !.analytics = @ + 1]]

\* PRAGMA foreign_keys of the connection: the database is opened and only
\* journal_mode is set, so SQLite's default (OFF) stands and the ON DELETE
\* CASCADE clauses of the schema are not enforced.
foreign_keys == FALSE

\* variant: a row without owner matches any caller
deleteUrlQueryUnowned(shortCode, userId) ==
  Bind({u \in urls : u.short_code = shortCode /\ u.user_id \in {userId, Null}},
       LAMBDA gone :
    [changes |-> Cardinality(gone), urls |-> urls \ gone,
     analytics |-> IF foreign_keys
                   THEN {a \in analytics : \A u \in gone : a.url_id # u.id}
                   ELSE analytics])

\* DELETE FROM urls WHERE short_code = ? AND user_id = ?, and what
\* analytics.url_id REFERENCES urls(id) ON DELETE CASCADE does for the rows
\* it removes
deleteUrlQuery(shortCode, userId) ==
  Bind({u \in urls : u.short_code = shortCode /\ u.user_id = userId}, LAMBDA gone :
    [changes |-> Cardinality(gone), urls |-> urls \ gone,
     analytics |-> IF foreign_keys
                   THEN {a \in analytics : \A u \in gone : a.url_id # u.id}
                   ELSE analytics])

\* ORDER BY created_at DESC leaves the order of rows with one created_at to
\* the engine; the model takes the two scan directions.
TieOrders == {"rowid ASC", "rowid DESC"}

\* row a comes before row b in the result
Before(a, b, ties) ==
  \/ a.created_at > b.created_at
  \/ /\ a.created_at = b.created_at
     /\ IF ties = "rowid ASC" THEN a.id < b.id ELSE a.id > b.id

\* SELECT ... FROM urls WHERE user_id = ? ORDER BY created_at DESC
getUserUrlsQuery(userId, ties) ==
  Bind({u \in urls : u.user_id = userId}, LAMBDA rows :
    [i \in 1..Cardinality(rows) |->
       CHOOSE r \in rows : Cardinality({q \in rows : Before(q, r, ties)}) = i - 1])

\* What a controller leaves behind: its response, the tables, the register
\* requests in flight and the token it issued (ForgedToken: none).
Same(r) ==
  [resp |-> r, users |-> users, urls |-> urls, analytics |-> analytics,
   seq |-> seq, inFlight |-> inFlight, issued |-> ForgedToken]

Found(row) == row.id # Null

\* ---------------------------------------------------------- UrlController
\* variant: the loop gives up one attempt early
RECURSIVE UniqueCodeLoopGivesUpEarly(_, _, _)
UniqueCodeLoopGivesUpEarly(shortCode, attempts, draws) ==
  IF attempts < MaxAttempts - 1
  THEN IF ~Found(findUrlByShortCode(shortCode))
       THEN [shortCode |-> shortCode, attempts |-> attempts]
       ELSE UniqueCodeLoopGivesUpEarly(draws[attempts + 2], attempts + 1, draws)
  ELSE [shortCode |-> shortCode, attempts |-> MaxAttempts]

\* The while loop of createShortUrl over the codes generateShortCode returns:
\* draws[1] is the first code, draws[attempts + 2] the one drawn after a
\* collision.  Returns the code it ended with and the attempts made.
RECURSIVE UniqueCodeLoop(_, _, _)
UniqueCodeLoop(shortCode, attempts, draws) ==
  IF attempts < MaxAttempts
  THEN IF ~Found(findUrlByShortCode(shortCode))
       THEN [shortCode |-> shortCode, attempts |-> attempts]
       ELSE UniqueCodeLoop(draws[attempts + 2], attempts + 1, draws)
  ELSE [shortCode |-> shortCode, attempts |-> attempts]

\* variant: without the test for a positive number
ExpiresAtAnySign(expiresInDays) ==
  IF expiresInDays # 0 THEN now + expiresInDays ELSE Null

\* expiresAt of a creation: now + expiresInDays when that is truthy and > 0
ExpiresAt(expiresInDays) ==
  IF expiresInDays # 0 /\ expiresInDays > 0 THEN now + expiresInDays ELSE Null

\* const userId = ctx.user?.userId || null
OwnerOf(ctx) == IF ctx.user.userId # Null THEN ctx.user.userId ELSE Null

InsertUrl(ctx, shortCode) ==
  Bind(createUrl(shortCode, ctx.body.url, OwnerOf(ctx), ExpiresAt(ctx.body.expiresInDays)),
       LAMBDA result :
    IF ~result.ok
    THEN Same(Fail("createShortUrl", 500, "Failed to create short URL", ctx))
    ELSE [Same(Response("createShortUrl", 201, "", ctx.caller, shortCode,
                        ctx.body.url, Null))
            EXCEPT !.urls = result.urls, !.seq = result.seq])

\* variant: a custom code that exists is replaced by a generated one
createShortUrlSubstitutes(ctx, draws) ==
  LET body == ctx.body
  IN IF ~body.defined
     THEN Same(Exception("createShortUrl", TypeErrorMessage, ctx))
     ELSE IF body.url = U_none
     THEN Same(Fail("createShortUrl", 400, "URL is required", ctx))
     ELSE IF ~isValidUrl(body.url)
     THEN Same(Fail("createShortUrl", 400, "Invalid URL format", ctx))
     ELSE IF body.customCode # NoCode /\ ~isValidCustomCode(body.customCode)
     THEN Same(Fail("createShortUrl", 400,
                    "Custom code must be 3-20 characters, alphanumeric, hyphens, and underscores only",
                    ctx))
     ELSE IF body.customCode # NoCode /\ ~Found(findUrlByShortCode(body.customCode))
     THEN InsertUrl(ctx, body.customCode)
     ELSE Bind(UniqueCodeLoop(draws[1], 0, draws), LAMBDA loop :
            IF loop.attempts = MaxAttempts
            THEN Same(Fail("createShortUrl", 500, "Failed to generate unique code", ctx))
            ELSE InsertUrl(ctx, loop.shortCode))

\* variant: a custom code that exists is taken as an update of its row
createShortUrlUpsert(ctx, draws) ==
  LET body == ctx.body
  IN IF ~body.defined
     THEN Same(Exception("createShortUrl", TypeErrorMessage, ctx))
     ELSE IF body.url = U_none
     THEN Same(Fail("createShortUrl", 400, "URL is required", ctx))
     ELSE IF ~isValidUrl(body.url)
     THEN Same(Fail("createShortUrl", 400, "Invalid URL format", ctx))
     ELSE IF body.customCode # NoCode
     THEN IF ~isValidCustomCode(body.customCode)
          THEN Same(Fail("createShortUrl", 400,
                         "Custom code must be 3-20 characters, alphanumeric, hyphens, and underscores only",
                         ctx))
          ELSE IF Found(findUrlByShortCode(body.customCode))
          THEN [Same(Response("createShortUrl", 201, "", ctx.caller, body.customCode,
                              body.url, Null))
                  EXCEPT !.urls = {IF u.short_code = body.customCode
                                   THEN [u EXCEPT !.original_url = body.url,
                                                  !.user_id = OwnerOf(ctx)]
                                   ELSE u : u \in urls}]
          ELSE InsertUrl(ctx, body.customCode)
     ELSE Bind(UniqueCodeLoop(draws[1], 0, draws), LAMBDA loop :
            IF loop.attempts = MaxAttempts
            THEN Same(Fail("createShortUrl", 500, "Failed to generate unique code", ctx))
            ELSE InsertUrl(ctx, loop.shortCode))

createShortUrl(ctx, draws) ==
  LET body == ctx.body
  IN IF ~body.defined
     THEN Same(Exception("createShortUrl", TypeErrorMessage, ctx))
     ELSE IF body.url = U_none
     THEN Same(Fail("createShortUrl", 400, "URL is required", ctx))
     ELSE IF ~isValidUrl(body.url)
     THEN Same(Fail("createShortUrl", 400, "Invalid URL format", ctx))
     ELSE IF body.customCode # NoCode
     THEN IF ~isValidCustomCode(body.customCode)
          THEN Same(Fail("createShortUrl", 400,
                         "Custom code must be 3-20 characters, alphanumeric, hyphens, and underscores only",
                         ctx))
          ELSE IF Found(findUrlByShortCode(body.customCode))
          THEN Same(Fail("createShortUrl", 409, "Custom code already exists", ctx))
          ELSE InsertUrl(ctx, body.customCode)
     ELSE Bind(UniqueCodeLoop(draws[1], 0, draws), LAMBDA loop :
            IF loop.attempts = MaxAttempts
            THEN Same(Fail("createShortUrl", 500, "Failed to generate unique code", ctx))
            ELSE InsertUrl(ctx, loop.shortCode))

\* variant: the comparison is the wrong way round
IsExpiredInverted(urlRecord) ==
  urlRecord.expires_at # Null /\ urlRecord.expires_at > now

\* expirationDate < new Date()
IsExpired(urlRecord) == urlRecord.expires_at # Null /\ urlRecord.expires_at < now

\* variant: the click is recorded before the expiry is looked at
redirectCountsFirst(ctx) ==
  Bind(findUrlByShortCode(ctx.code), LAMBDA urlRecord :
    IF ctx.code = NoCode
    THEN Same(Fail("redirect", 400, "Short code is required", ctx))
    ELSE IF ~Found(urlRecord)
    THEN Same(Text("redirect", 404, "URL not found", ctx))
    ELSE Bind(logClick(urlRecord.id), LAMBDA logged :
           [Same(IF IsExpired(urlRecord)
                 THEN Text("redirect", 410, "URL has expired", ctx)
                 ELSE [Response("redirect", 302, "", ctx.caller, ctx.code,
                                urlRecord.original_url, Null) EXCEPT !.body = "none"])
              EXCEPT !.analytics = logged.analytics,
                     !.seq = logged.seq,
                     !.urls = incrementClicks(urls, urlRecord.id)]))

redirect(ctx) ==
  Bind(findUrlByShortCode(ctx.code), LAMBDA urlRecord :
    IF ctx.code = NoCode
    THEN Same(Fail("redirect", 400, "Short code is required", ctx))
    ELSE IF ~Found(urlRecord)
    THEN Same(Text("redirect", 404, "URL not found", ctx))
    ELSE IF IsExpired(urlRecord)
    THEN Same(Text("redirect", 410, "URL has expired", ctx))
    ELSE Bind(logClick(urlRecord.id), LAMBDA logged :
           [Same([Response("redirect", 302, "", ctx.caller, ctx.code,
                           urlRecord.original_url, Null) EXCEPT !.body = "none"])
              EXCEPT !.analytics = logged.analytics,
                     !.seq = logged.seq,
                     !.urls = incrementClicks(urls, urlRecord.id)]))

getUserUrls(ctx, ties) ==
  IF ctx.user = NoUser
  THEN Same(Fail("getUserUrls", 401, "Unauthorized", ctx))
  ELSE Bind(getUserUrlsQuery(ctx.user.userId, ties), LAMBDA rows :
         Same([Response("getUserUrls", 200, "", ctx.caller, NoCode, U_none, Len(rows))
                 EXCEPT !.list = [i \in 1..Len(rows) |-> rows[i].id]]))

\* variant: without the ownership check
getAnalyticsAnyOwner(ctx) ==
  Bind(findUrlByShortCode(ctx.code), LAMBDA urlRecord :
    IF ctx.user = NoUser
    THEN Same(Fail("getAnalytics", 401, "Unauthorized", ctx))
    ELSE IF ctx.code = NoCode
    THEN Same(Fail("getAnalytics", 400, "Short code is required", ctx))
    ELSE IF ~Found(urlRecord)
    THEN Same(Fail("getAnalytics", 404, "URL not found", ctx))
    ELSE Same(Response("getAnalytics", 200, "", ctx.caller, ctx.code, U_none,
                       urlRecord.clicks)))

getAnalytics(ctx) ==
  Bind(findUrlByShortCode(ctx.code), LAMBDA urlRecord :
    IF ctx.user = NoUser
    THEN Same(Fail("getAnalytics", 401, "Unauthorized", ctx))
    ELSE IF ctx.code = NoCode
    THEN Same(Fail("getAnalytics", 400, "Short code is required", ctx))
    ELSE IF ~Found(urlRecord)
    THEN Same(Fail("getAnalytics", 404, "URL not found", ctx))
    ELSE IF urlRecord.user_id # ctx.user.userId
    THEN Same(Fail("getAnalytics", 403, "Unauthorized", ctx))
    ELSE Same(Response("getAnalytics", 200, "", ctx.caller, ctx.code, U_none,
                       urlRecord.clicks)))

\* variant: the row is looked up first and another user's row is refused
deleteUrlLooksUpFirst(ctx) ==
  IF ctx.user = NoUser
  THEN Same(Fail("deleteUrl", 401, "Unauthorized", ctx))
  ELSE IF ctx.code = NoCode
  THEN Same(Fail("deleteUrl", 400, "Short code is required", ctx))
  ELSE IF ~Found(findUrlByShortCode(ctx.code))
  THEN Same(Fail("deleteUrl", 404, "URL not found", ctx))
  ELSE Bind(deleteUrlQuery(ctx.code, ctx.user.userId), LAMBDA result :
         IF result.changes = 0
         THEN Same(Fail("deleteUrl", 403, "Unauthorized", ctx))
         ELSE [Same(Response("deleteUrl", 200, "", ctx.caller, ctx.code, U_none, Null))
                 EXCEPT !.urls = result.urls, !.analytics = result.analytics])

deleteUrl(ctx) ==
  IF ctx.user = NoUser
  THEN Same(Fail("deleteUrl", 401, "Unauthorized", ctx))
  ELSE IF ctx.code = NoCode
  THEN Same(Fail("deleteUrl", 400, "Short code is required", ctx))
  ELSE Bind(deleteUrlQuery(ctx.code, ctx.user.userId), LAMBDA result :
         IF result.changes = 0
         THEN Same(Fail("deleteUrl", 404, "URL not found or unauthorized", ctx))
         ELSE [Same(Response("deleteUrl", 200, "", ctx.caller, ctx.code, U_none, Null))
                 EXCEPT !.urls = result.urls, !.analytics = result.analytics])

\* --------------------------------------------------------- AuthController
\* variant: the email shape is checked before the username shape
registerEmailFirst(ctx) ==
  LET body == ctx.body
  IN IF ~body.defined
     THEN Same(Exception("register", TypeErrorMessage, ctx))
     ELSE IF body.username = << >> \/ body.email = << >> \/ body.password = << >>
     THEN Same(Fail("register", 400, "All fields are required", ctx))
     ELSE IF ~isValidEmail(body.email)
     THEN Same(Fail("register", 400, "Invalid email format", ctx))
     ELSE IF ~isValidUsername(body.username)
     THEN Same(Fail("register", 400,
                    "Username must be 3-20 characters, alphanumeric and underscores only", ctx))
     ELSE IF ~isValidPassword(body.password)
     THEN Same(Fail("register", 400,
                    "Password must be at least 8 characters with uppercase, lowercase, and number",
                    ctx))
     ELSE IF Found(findUserByUsername(body.username))
     THEN Same(Fail("register", 409, "Username already exists", ctx))
     ELSE IF Found(findUserByEmail(body.email))
     THEN Same(Fail("register", 409, "Email already exists", ctx))
     ELSE [Same(NoResp) EXCEPT !.inFlight =
             inFlight (+) SetToBag({[username |-> body.username, email |-> body.email,
                                     password |-> body.password]})]

\* variant: without the username lookup
registerNoUsernameCheck(ctx) ==
  LET body == ctx.body
  IN IF ~body.defined
     THEN Same(Exception("register", TypeErrorMessage, ctx))
     ELSE IF body.username = << >> \/ body.email = << >> \/ body.password = << >>
     THEN Same(Fail("register", 400, "All fields are required", ctx))
     ELSE IF ~isValidUsername(body.username)
     THEN Same(Fail("register", 400,
                    "Username must be 3-20 characters, alphanumeric and underscores only", ctx))
     ELSE IF ~isValidEmail(body.email)
     THEN Same(Fail("register", 400, "Invalid email format", ctx))
     ELSE IF ~isValidPassword(body.password)
     THEN Same(Fail("register", 400,
                    "Password must be at least 8 characters with uppercase, lowercase, and number",
                    ctx))
     ELSE IF Found(findUserByEmail(body.email))
     THEN Same(Fail("register", 409, "Email already exists", ctx))
     ELSE [Same(NoResp) EXCEPT !.inFlight =
             inFlight (+) SetToBag({[username |-> body.username, email |-> body.email,
                                     password |-> body.password]})]

\* register up to `await AuthService.hashPassword`: the validation and the two
\* existence checks.  A request that passes them is suspended (no response
\* yet) and RegisterFinish resumes it.
register(ctx) ==
  LET body == ctx.body
  IN IF ~body.defined
     THEN Same(Exception("register", TypeErrorMessage, ctx))
     ELSE IF body.username = << >> \/ body.email = << >> \/ body.password = << >>
     THEN Same(Fail("register", 400, "All fields are required", ctx))
     ELSE IF ~isValidUsername(body.username)
     THEN Same(Fail("register", 400,
                    "Username must be 3-20 characters, alphanumeric and underscores only", ctx))
     ELSE IF ~isValidEmail(body.email)
     THEN Same(Fail("register", 400, "Invalid email format", ctx))
     ELSE IF ~isValidPassword(body.password)
     THEN Same(Fail("register", 400,
                    "Password must be at least 8 characters with uppercase, lowercase, and number",
                    ctx))
     ELSE IF Found(findUserByUsername(body.username))
     THEN Same(Fail("register", 409, "Username already exists", ctx))
     ELSE IF Found(findUserByEmail(body.email))
     THEN Same(Fail("register", 409, "Email already exists", ctx))
     ELSE [Same(NoResp) EXCEPT !.inFlight =
             inFlight (+) SetToBag({[username |-> body.username, email |-> body.email,
                                     password |-> body.password]})]

\* register from the insert on, for the suspended request r
registerResume(r) ==
  Bind(createUser(r.username, r.email, hashPassword(r.password)), LAMBDA result :
    IF ~result.ok
    THEN [Same(Response("register", 500, "Failed to register user", Null, NoCode,
                        U_none, Null))
            EXCEPT !.inFlight = inFlight (-) SetToBag({r})]
    ELSE [Same([Response("register", 201, "", Null, NoCode, U_none, Null)
                  EXCEPT !.user = [id |-> result.lastInsertRowid,
                                   username |-> r.username, email |-> r.email]])
            EXCEPT !.inFlight = inFlight (-) SetToBag({r}),
                   !.users = result.users, !.seq = result.seq,
                   !.issued = generateToken([userId |-> result.lastInsertRowid,
                                             username |-> r.username])])

\* variant: the response carries the row as selected
loginUserWholeRow(user) == user

\* the user object of login's response
loginUser(user) == [id |-> user.id, username |-> user.username, email |-> user.email]

\* variant: an unknown username gets a message of its own
loginNamesUnknown(ctx) ==
  Bind(findUserByUsername(ctx.body.username), LAMBDA user :
    IF ~ctx.body.defined
    THEN Same(Exception("login", TypeErrorMessage, ctx))
    ELSE IF ctx.body.username = << >> \/ ctx.body.password = << >>
    THEN Same(Fail("login", 400, "Username and password are required", ctx))
    ELSE IF ~Found(user)
    THEN Same(Fail("login", 401, "User not found", ctx))
    ELSE IF ~verifyPassword(ctx.body.password, user.password_hash)
    THEN Same(Fail("login", 401, "Invalid credentials", ctx))
    ELSE [Same([Response("login", 200, "", ctx.caller, NoCode, U_none, Null)
                  EXCEPT !.user = loginUser(user)])
            EXCEPT !.issued = generateToken([userId |-> user.id,
                                             username |-> user.username])])

\* login: one 401 for an unknown username and for a wrong password
login(ctx) ==
  Bind(findUserByUsername(ctx.body.username), LAMBDA user :
    IF ~ctx.body.defined
    THEN Same(Exception("login", TypeErrorMessage, ctx))
    ELSE IF ctx.body.username = << >> \/ ctx.body.password = << >>
    THEN Same(Fail("login", 400, "Username and password are required", ctx))
    ELSE IF ~Found(user)
    THEN Same(Fail("login", 401, "Invalid credentials", ctx))
    ELSE IF ~verifyPassword(ctx.body.password, user.password_hash)
    THEN Same(Fail("login", 401, "Invalid credentials", ctx))
    ELSE [Same([Response("login", 200, "", ctx.caller, NoCode, U_none, Null)
                  EXCEPT !.user = loginUser(user)])
            EXCEPT !.issued = generateToken([userId |-> user.id,
                                             username |-> user.username])])

getProfile(ctx) ==
  IF ctx.user = NoUser
  THEN Same(Fail("getProfile", 401, "Unauthorized", ctx))
  ELSE Bind(findUserById(ctx.user.userId), LAMBDA user :
         IF ~Found(user)
         THEN Same(Fail("getProfile", 404, "User not found", ctx))
         ELSE Same([Response("getProfile", 200, "", ctx.caller, NoCode, U_none, Null)
                      EXCEPT !.user = user]))

\* ---------------------------------------------------------------- middleware
NoRecord == [count |-> 0, resetAt |-> Null]

\* variant: a rejected request is counted too
rateLimitCountsRejected(ip) ==
  LET record == rateLimitStore[ip]
  IN IF record # NoRecord /\ now < record.resetAt
     THEN [admitted |-> record.count < maxRequests,
           store |-> [rateLimitStore EXCEPT ![ip].count = @ + 1]]
     ELSE [admitted |-> TRUE,
           store |-> [rateLimitStore EXCEPT
                        ![ip] = [count |-> 1, resetAt |-> now + windowMs]]]

\* variant: a new window carries the old count on
rateLimitKeepsCount(ip) ==
  LET record == rateLimitStore[ip]
  IN IF record # NoRecord /\ now < record.resetAt
     THEN IF record.count >= maxRequests
          THEN [admitted |-> FALSE, store |-> rateLimitStore]
          ELSE [admitted |-> TRUE,
                store |-> [rateLimitStore EXCEPT ![ip].count = @ + 1]]
     ELSE [admitted |-> TRUE,
           store |-> [rateLimitStore EXCEPT
                        ![ip] = [count |-> record.count + 1,
                                 resetAt |-> now + windowMs]]]

\* variant: one record serves every key
rateLimitSharedRecord(ip) ==
  LET record == rateLimitStore["unknown"]
  IN IF record # NoRecord /\ now < record.resetAt
     THEN IF record.count >= maxRequests
          THEN [admitted |-> FALSE, store |-> rateLimitStore]
          ELSE [admitted |-> TRUE,
                store |-> [rateLimitStore EXCEPT !["unknown"].count = @ + 1]]
     ELSE [admitted |-> TRUE,
           store |-> [rateLimitStore EXCEPT
                        !["unknown"] = [count |-> 1, resetAt |-> now + windowMs]]]

\* rateLimit(maxRequests, windowMs) for the key `ip`: whether the request goes
\* on to next(), and the store it leaves
rateLimit(ip) ==
  LET record == rateLimitStore[ip]
  IN IF record # NoRecord /\ now < record.resetAt
     THEN IF record.count >= maxRequests
          THEN [admitted |-> FALSE, store |-> rateLimitStore]
          ELSE [admitted |-> TRUE,
                store |-> [rateLimitStore EXCEPT ![ip].count = @ + 1]]
     ELSE [admitted |-> TRUE,
           store |-> [rateLimitStore EXCEPT
                        ![ip] = [count |-> 1, resetAt |-> now + windowMs]]]

\* History of a key's window, which opens with the first request that finds
\* none open and lasts windowMs: when it opened, the non-preflight requests
\* received in it and those of them that passed the limiter (both counted up
\* to MaxLimit + 1), and whether one got a 429; and whether a window of the
\* key that has ended held a 429.
NoTraffic ==
  [opened |-> Null, requests |-> 0, admitted |-> 0, rejected |-> FALSE,
   refused |-> FALSE]

\* a window that has ended by time t is forgotten
Settle(h, t) ==
  IF h.opened # Null /\ t >= h.opened + windowMs
  THEN [NoTraffic EXCEPT !.refused = h.refused \/ h.rejected]
  ELSE h

Received(h, status) ==
  Bind(IF h.opened = Null THEN [h EXCEPT !.opened = now] ELSE h, LAMBDA w :
    Settle([w EXCEPT !.requests = IF @ <= MaxLimit THEN @ + 1 ELSE @,
                     !.admitted = IF @ <= MaxLimit /\ status # 429 THEN @ + 1 ELSE @,
                     !.rejected = @ \/ status = 429], now))

\* variant: the token is decoded, not verified
authenticateDecodeOnly(authHeader) ==
  Bind(extractTokenFromHeader(authHeader), LAMBDA token :
    IF ~token.found
    THEN [ok |-> FALSE, error |-> "No token provided", user |-> NoUser]
    ELSE [ok |-> TRUE, error |-> "",
          user |-> [userId |-> token.token.userId, username |-> token.token.username]])

\* authenticate: the 401 it answers, or the identity it attaches to ctx.user
authenticate(authHeader) ==
  Bind(extractTokenFromHeader(authHeader), LAMBDA token :
    IF ~token.found
    THEN [ok |-> FALSE, error |-> "No token provided", user |-> NoUser]
    ELSE Bind(verifyToken(token.token), LAMBDA payload :
           IF payload = NoUser
           THEN [ok |-> FALSE, error |-> "Invalid or expired token", user |-> NoUser]
           ELSE [ok |-> TRUE, error |-> "", user |-> payload]))

\* -------------------------------------------------------------------- router
\* A path is its segments: pathname.split("/").filter(Boolean)
Route(method, path, handler, middlewares) ==
  [method |-> method, path |-> path, handler |-> handler, middlewares |-> middlewares]

\* router.get / router.post / router.delete calls, in registration order
routes ==
  << Route("GET", <<S_health>>, "health", << >>),
     Route("POST", <<S_api, S_auth, S_register>>, "register", <<"jsonParser">>),
     Route("POST", <<S_api, S_auth, S_login>>, "login", <<"jsonParser">>),
     Route("GET", <<S_api, S_auth, S_profile>>, "getProfile", <<"authenticate">>),
     Route("POST", <<S_api, S_urls>>, "createShortUrl", <<"jsonParser">>),
     Route("GET", <<S_api, S_urls>>, "getUserUrls", <<"authenticate">>),
     Route("GET", <<S_api, S_urls, P_code, S_analytics>>, "getAnalytics", <<"authenticate">>),
     Route("DELETE", <<S_api, S_urls, P_code>>, "deleteUrl", <<"authenticate">>),
     Route("GET", <<P_code>>, "redirect", << >>),
     Route("GET", << >>, "docs", << >>) >>

IsParam(patternPart) == Len(patternPart) > 0 /\ patternPart[1] = ":"

\* Router.matchPath: null (matched FALSE), or the params it bound
matchPath(pattern, pathname) ==
  IF Len(pattern) # Len(pathname)
  THEN [matched |-> FALSE, params |-> << >>]
  ELSE IF \E i \in 1..Len(pattern) : ~IsParam(pattern[i]) /\ pattern[i] # pathname[i]
  THEN [matched |-> FALSE, params |-> << >>]
  ELSE [matched |-> TRUE,
        params |-> [name \in {Tail(pattern[i]) : i \in {j \in 1..Len(pattern) : IsParam(pattern[j])}}
                      |-> pathname[CHOOSE i \in 1..Len(pattern) :
                                     /\ IsParam(pattern[i]) /\ Tail(pattern[i]) = name
                                     /\ \A k \in (i + 1)..Len(pattern) :
                                          ~(IsParam(pattern[k]) /\ Tail(pattern[k]) = name)]]]

\* Router.match: the first registered route of that method whose pattern matches
match(method, pathname) ==
  Bind({i \in 1..Len(routes) :
          routes[i].method = method /\ matchPath(routes[i].path, pathname).matched},
       LAMBDA hits :
    IF hits = {}
    THEN [found |-> FALSE, route |-> routes[1], params |-> << >>]
    ELSE Bind(CHOOSE i \in hits : \A j \in hits : i <= j, LAMBDA first :
           [found |-> TRUE, route |-> routes[first],
            params |-> matchPath(routes[first].path, pathname).params]))

\* ctx.params?.code
ParamCode(params) ==
  IF Tail(P_code) \in DOMAIN params THEN params[Tail(P_code)] ELSE NoCode

\* the route's handler
Handler(handler, ctx, draws) ==
  CASE handler = "health" ->
         Same([Response("health", 200, "", ctx.caller, NoCode, U_none, Null)
                 EXCEPT !.body = "json"])
    [] handler = "docs" ->
         Same([Response("docs", 200, "", ctx.caller, NoCode, U_none, Null)
                 EXCEPT !.body = "html"])
    [] handler = "register" -> register(ctx)
    [] handler = "login" -> login(ctx)
    [] handler = "getProfile" -> getProfile(ctx)
    [] handler = "createShortUrl" -> createShortUrl(ctx, draws.codes)
    [] handler = "getUserUrls" -> getUserUrls(ctx, draws.ties)
    [] handler = "getAnalytics" -> getAnalytics(ctx)
    [] handler = "deleteUrl" -> deleteUrl(ctx)
    [] handler = "redirect" -> redirect(ctx)

\* The body {} of a request (`json`: its text parses as JSON); Malformed is
\* a body that does not parse, and NoBody is ctx.body left undefined.
EmptyBody ==
  [defined |-> TRUE, json |-> TRUE, username |-> << >>, email |-> << >>,
   password |-> << >>, url |-> U_none, customCode |-> NoCode, expiresInDays |-> 0]

Malformed == [EmptyBody EXCEPT !.json = FALSE]

NoBody == [EmptyBody EXCEPT !.defined = FALSE]

\* compose(...middlewares)(ctx, () => handler(ctx)): dispatch(i) runs
\* middlewares[i], which answers itself or calls dispatch(i + 1)
RECURSIVE dispatch(_, _, _, _, _)
dispatch(i, route, req, ctx, draws) ==
  IF i = Len(route.middlewares) + 1
  THEN Handler(route.handler, ctx, draws)
  ELSE IF route.middlewares[i] = "authenticate"
  THEN Bind(authenticate(req.auth), LAMBDA a :
         IF ~a.ok
         THEN Same(Fail("authenticate", 401, a.error, ctx))
         ELSE Bind([ctx EXCEPT !.user = a.user], LAMBDA c :
                dispatch(i + 1, route, req, c, draws)))
  ELSE \* jsonParser: a JSON body is parsed and attached to the context
       IF req.method \in {"GET", "DELETE"} \/ req.content # "application/json"
       THEN dispatch(i + 1, route, req, ctx, draws)
       ELSE IF ~req.body.json
       THEN Same(Fail("jsonParser", 400, "Invalid JSON body", ctx))
       ELSE Bind([ctx EXCEPT !.body = req.body], LAMBDA c :
              dispatch(i + 1, route, req, c, draws))

\* the account fields of a body
Account(body) ==
  [username |-> body.username, email |-> body.email, password |-> body.password,
   customCode |-> body.customCode]

\* what the server reads of a request
Request(method, path, key, auth, body) ==
  [method |-> method, path |-> path, key |-> key, auth |-> auth, body |-> body,
   content |-> "application/json"]

\* How a client sends a POST: its fields as JSON, a JSON Content-Type over
\* text that does not parse, or no body and no Content-Type.
Sent == {"json", "malformed", "bare"}

Wire(sent, req) ==
  CASE sent = "json" -> req
    [] sent = "malformed" -> [req EXCEPT !.body = Malformed]
    [] sent = "bare" -> [req EXCEPT !.body = NoBody, !.content = ""]


\* Router.handle
handle(req, draws) ==
  Bind(match(req.method, req.path), LAMBDA m :
  Bind([caller |-> verifyToken(extractTokenFromHeader(req.auth).token).userId,
        user |-> NoUser, code |-> ParamCode(m.params), body |-> NoBody],
       LAMBDA ctx :
    IF ~m.found
    THEN Same(Response("router", 404, "Route not found", ctx.caller, NoCode, U_none, Null))
    ELSE dispatch(1, m.route, req, ctx, draws)))

\* rateLimit in the global chain, around router.handle: the outcome and the
\* limiter's store
limited(req, draws) ==
  Bind(rateLimit(req.key), LAMBDA limit :
    IF ~limit.admitted
    THEN [out |-> Same(Response("rateLimit", 429,
                                "Too many requests. Please try again later.",
                                Null, NoCode, U_none, Null)),
          store |-> limit.store]
    ELSE [out |-> handle(req, draws), store |-> limit.store])

\* variant: without the preflight branch
corsNoPreflight(req, draws) ==
  Bind(limited(req, draws), LAMBDA inner :
    IF Thrown(inner.out.resp) THEN inner
    ELSE [inner EXCEPT !.out.resp.cors = TRUE])

\* cors: answers a preflight itself; otherwise awaits next() and copies its
\* response with the three headers added.  An exception passes through.
cors(req, draws) ==
  IF req.method = "OPTIONS"
  THEN [out |-> Same([Response("cors", 204, "", Null, NoCode, U_none, Null)
                        EXCEPT !.body = "none", !.cors = TRUE]),
        store |-> rateLimitStore]
  ELSE Bind(limited(req, draws), LAMBDA inner :
         IF Thrown(inner.out.resp) THEN inner
         ELSE [inner EXCEPT !.out.resp.cors = TRUE])

\* variant: the catch block rethrows
errorHandlerRethrows(inner) == inner

\* errorHandler: try { return await next() } catch: 500 with error.message
errorHandler(inner) ==
  IF Thrown(inner.out.resp)
  THEN [inner EXCEPT !.out.resp =
          Response("errorHandler", 500, @.error, @.caller, NoCode, U_none, Null)]
  ELSE inner

\* Bun.serve's error(error) callback, for what fetch throws
error(inner) ==
  IF Thrown(inner.out.resp)
  THEN [inner EXCEPT !.out.resp =
          [Response("error", 500, "Internal Server Error", @.caller, NoCode, U_none, Null)
             EXCEPT !.body = "text"]]
  ELSE inner

\* Bun.serve's fetch: the global chain errorHandler, logger, cors, rateLimit
\* around router.handle.  Returns the outcome and the rate limiter's store.
fetch(req, draws) == error(errorHandler(cors(req, draws)))

\* ---------------------------------------------------------------------- seed
\* scripts/seed: three users with password Demo1234, the demo URLs, anonymous
\* URLs with random codes, and simulated clicks on the URLs with ids 1..5.
\* the seed script ran before the server started, all its inserts in one second
SeedTime == 0 - 1

demoUsers ==
  { [id |-> 1, username |-> N_demo_user, email |-> E_demo,
     password_hash |-> hashPassword(PW_Demo1234), created_at |-> SeedTime],
    [id |-> 2, username |-> N_alice, email |-> E_alice,
     password_hash |-> hashPassword(PW_Demo1234), created_at |-> SeedTime],
    [id |-> 3, username |-> N_bob, email |-> E_bob,
     password_hash |-> hashPassword(PW_Demo1234), created_at |-> SeedTime] }

demoUrls ==
  << [url |-> U_github, code |-> S_github, userId |-> 1],
     [url |-> U_google, code |-> S_google, userId |-> 1],
     [url |-> U_stackoverflow, code |-> S_so, userId |-> 2],
     [url |-> U_reddit, code |-> S_reddit, userId |-> 2],
     [url |-> U_twitter, code |-> S_twitter, userId |-> 3] >>

SeedDemoCount == IF SeedUrls < Len(demoUrls) THEN SeedUrls ELSE Len(demoUrls)
SeedUrlCount == SeedDemoCount + SeedRandomUrls
SeedClicked == 1..(IF SeedUrlCount < 5 THEN SeedUrlCount ELSE 5)

RECURSIVE SumTo(_, _)
SumTo(f, n) == IF n = 0 THEN 0 ELSE f[n] + SumTo(f, n - 1)

\* The tables after the seed, for the random codes and click numbers it drew
SeededUrls(randomCode, clicked) ==
  { [id |-> i,
     short_code |-> IF i <= SeedDemoCount THEN demoUrls[i].code
                    ELSE randomCode[i - SeedDemoCount],
     original_url |-> IF i <= SeedDemoCount THEN demoUrls[i].url ELSE U_example,
     user_id |-> IF i <= SeedDemoCount THEN demoUrls[i].userId ELSE Null,
     clicks |-> IF i \in SeedClicked THEN clicked[i] ELSE 0,
     created_at |-> SeedTime,
     expires_at |-> Null] : i \in 1..SeedUrlCount }

SeededAnalytics(clicked) ==
  { [id |-> n,
     url_id |-> CHOOSE i \in SeedClicked : SumTo(clicked, i - 1) < n /\ n <= SumTo(clicked, i)]
      : n \in 1..SumTo(clicked, Cardinality(SeedClicked)) }

Keys == {"unknown", "10.0.0.1"}
NoKey == "none"

\* ------------------------------------------------------------------ compose
\* The middlewares compose is handed, by what they do with next: "next" runs
\* its pre-logic, awaits next() and runs its post-logic (logger, cors);
\* "return" runs its pre-logic and returns a response without calling next
\* (cors on a preflight, rateLimit on a 429, authenticate on a 401); "catch"
\* awaits next() inside try and answers from its catch block (errorHandler);
\* "twice" awaits next() and then calls next() a second time.
\* The inner handler returns a response or throws.
MiddlewareKinds == {"next", "return", "catch", "twice"}
HandlerKinds == {"returns", "throws"}

Chains == UNION {[1..n -> MiddlewareKinds] : n \in 0..MaxChain}

\* the invocations of one composed chain that are in progress together
Invocations == 1..MaxInvocations

Ran(ev, i) == [ev |-> ev, i |-> i]

MultipleCalls == "next() called multiple times"

NoRun ==
  [chain |-> << >>, handler |-> "returns", index |-> 0 - 1, stack |-> << >>,
   called |-> {}, mode |-> "idle", error |-> "", trace |-> << >>]

Idle == [inv \in Invocations |-> NoRun]

\* composed(ctx, () => handler(ctx)): `index` starts at -1 and dispatch(0) is
\* about to be called
Invoke(chain, handler) ==
  [NoRun EXCEPT !.chain = chain, !.handler = handler, !.mode = "call"]

\* variant: `index` is declared outside the returned function, once per chain
IndexCellShared(inv) == 1

\* `let index = -1` stands inside the function compose returns: every
\* invocation has an index of its own
IndexCell(inv) == inv

\* dispatch(i) for i < middlewares.length, called by the middleware below it
\* (i is the number of calls not yet returned): it throws when i <= index,
\* else sets index and enters middlewares[i], whose pre-logic runs and which
\* then calls next() or returns
Dispatch(inv) ==
  /\ run[inv].mode = "call"
  /\ Len(run[inv].stack) < Len(run[inv].chain)
  /\ LET i == Len(run[inv].stack)
     IN run' = IF i <= run[IndexCell(inv)].index
               THEN [run EXCEPT ![inv].mode = "throw", ![inv].error = MultipleCalls]
               ELSE [run EXCEPT ![IndexCell(inv)].index = i,
                                ![inv].stack = Append(@, i + 1),
                                ![inv].trace = Append(@, Ran("pre", i + 1)),
                                ![inv].mode = IF run[inv].chain[i + 1] = "return"
                                              THEN "return" ELSE "call"]
  /\ UNCHANGED <<users, urls, analytics, seq, now, maxRequests, windowMs,
                 rateLimitStore, inFlight, wallet, boot, resp, traffic, creators,
                 received, sender>>

\* dispatch(middlewares.length): `return next()`, the inner handler (what
\* Router.handle calls directly when the route has no middlewares)
CallHandler(inv) ==
  /\ run[inv].mode = "call"
  /\ Len(run[inv].stack) = Len(run[inv].chain)
  /\ run' = IF Len(run[inv].stack) <= run[IndexCell(inv)].index
            THEN [run EXCEPT ![inv].mode = "throw", ![inv].error = MultipleCalls]
            ELSE [run EXCEPT ![IndexCell(inv)].index = Len(run[inv].stack),
                             ![inv].trace = Append(@, Ran("h", 0)),
                             ![inv].error = IF run[inv].handler = "throws"
                                            THEN "handler" ELSE @,
                             ![inv].mode = IF run[inv].handler = "throws"
                                           THEN "throw" ELSE "return"]
  /\ UNCHANGED <<users, urls, analytics, seq, now, maxRequests, windowMs,
                 rateLimitStore, inFlight, wallet, boot, resp, traffic, creators,
                 received, sender>>

\* a response comes back to the innermost middleware not yet returned, which
\* goes on after its `await next()` by calling next() a second time
CallAgain(inv) ==
  /\ run[inv].mode = "return"
  /\ run[inv].stack # << >>
  /\ LET j == run[inv].stack[Len(run[inv].stack)]
     IN /\ run[inv].chain[j] = "twice"
        /\ j \notin run[inv].called
        /\ run' = [run EXCEPT ![inv].called = @ \cup {j}, ![inv].mode = "call"]
  /\ UNCHANGED <<users, urls, analytics, seq, now, maxRequests, windowMs,
                 rateLimitStore, inFlight, wallet, boot, resp, traffic, creators,
                 received, sender>>

\* a response comes back to the innermost middleware not yet returned: the
\* code after its `await next()` runs and it returns in turn (a middleware
\* that answered by itself has nothing left to run)
Return(inv) ==
  /\ run[inv].mode = "return"
  /\ run[inv].stack # << >>
  /\ LET j == run[inv].stack[Len(run[inv].stack)]
     IN /\ run[inv].chain[j] = "twice" => j \in run[inv].called
        /\ run' = [run EXCEPT ![inv].stack = SubSeq(@, 1, Len(@) - 1),
                              ![inv].trace = IF run[inv].chain[j] = "next"
                                             THEN Append(@, Ran("post", j)) ELSE @]
  /\ UNCHANGED <<users, urls, analytics, seq, now, maxRequests, windowMs,
                 rateLimitStore, inFlight, wallet, boot, resp, traffic, creators,
                 received, sender>>

\* an exception reaches the innermost middleware not yet returned: its
\* `await next()` rejects, so the code after it is skipped; a catch block
\* answers, any other middleware rejects in turn
Unwind(inv) ==
  /\ run[inv].mode = "throw"
  /\ run[inv].stack # << >>
  /\ LET j == run[inv].stack[Len(run[inv].stack)]
     IN run' = [run EXCEPT ![inv].stack = SubSeq(@, 1, Len(@) - 1),
                           ![inv].trace = IF run[inv].chain[j] = "catch"
                                          THEN Append(@, Ran("catch", j)) ELSE @,
                           ![inv].mode = IF run[inv].chain[j] = "catch"
                                         THEN "return" ELSE "throw"]
  /\ UNCHANGED <<users, urls, analytics, seq, now, maxRequests, windowMs,
                 rateLimitStore, inFlight, wallet, boot, resp, traffic, creators,
                 received, sender>>

\* the promise of the invocation has settled
Settled(inv) == run[inv].mode \in {"return", "throw"} /\ run[inv].stack = << >>

InitEmpty ==
  /\ users = {}
  /\ urls = {}
  /\ analytics = {}
  /\ seq = [users |-> 0, urls |-> 0, analytics |-> 0]

InitSeeded ==
  \E randomCode \in [1..SeedRandomUrls -> GeneratedCodes \ {S_github}],
     clicked \in [SeedClicked -> 0..SeedMaxClicks] :
    /\ \A i, j \in 1..SeedRandomUrls : randomCode[i] = randomCode[j] => i = j
    /\ users = demoUsers
    /\ urls = SeededUrls(randomCode, clicked)
    /\ analytics = SeededAnalytics(clicked)
    /\ seq = [users |-> 3, urls |-> SeedUrlCount,
              analytics |-> SumTo(clicked, Cardinality(SeedClicked))]

\* The server starts on a store that is empty (after db:migrate) or seeded
\* (after db:seed), with its configuration read from the environment.
Started(limits, windows) ==
  /\ boot = seq
  /\ now = 0
  /\ maxRequests \in limits
  /\ windowMs \in windows
  /\ rateLimitStore = [k \in Keys |-> NoRecord]
  /\ inFlight = EmptyBag
  /\ wallet = {}
  /\ resp = NoResp
  /\ traffic = [k \in Keys |-> NoTraffic]
  /\ creators = {}
  /\ received = Account(EmptyBody)
  /\ sender = NoKey

\* ... and no composed chain under observation
Boot(limits, windows) == Started(limits, windows) /\ run = Idle

\* ------------------------------------------------------------------- clients
ClientNames == {N_demo_user, N_alice, N_carol}
ClientEmails == {E_alice, E_carol, E_nodot}
ClientPasswords == {PW_Demo1234, PW_Wrong}
ClientCodes == {S_github, S_health, S_aB3xYz}
ClientUrls == {U_custom}
ClientDays == {0, 1}

\* the Authorization headers a client can send
Auths == {NoHeader, Bearer(ForgedToken)} \cup {Bearer(t) : t \in wallet}
\* ... the ones of a client that forges no token
OwnAuths == {NoHeader} \cup {Bearer(t) : t \in wallet}

\* what a request leaves to chance: the codes generateShortCode returns and
\* the order of tied rows
NoDraws == [codes |-> [i \in 1..(MaxAttempts + 1) |-> S_aB3xYz], ties |-> "rowid ASC"]

\* the model's bounds on what a step may leave behind
WithinBounds(out) ==
  /\ out.seq.users - boot.users <= MaxUserRows
  /\ out.seq.urls - boot.urls <= MaxUrlRows
  /\ out.seq.analytics - boot.analytics <= MaxClickRows
  /\ BagCardinality(out.inFlight) <= MaxInFlight

\* the client keeps the token of a response while it has room for it
Keep(token) ==
  IF token # ForgedToken /\ Cardinality(wallet) < MaxTokens
  THEN wallet \cup {token} ELSE wallet

\* the creators of the rows a step leaves: a 201 of createShortUrl adds the
\* caller of the request (Null without a valid token), a deleted row is forgotten
Created(out) ==
  {c \in creators : \E u \in out.urls : u.short_code = c.code}
    \cup (IF out.resp.op = "createShortUrl" /\ out.resp.status = 201
          THEN {[code |-> out.resp.code, userId |-> out.resp.caller]} ELSE {})

Apply(body, out, store, history) ==
  /\ WithinBounds(out)
  /\ received' = Account(body)
  /\ users' = out.users
  /\ urls' = out.urls
  /\ analytics' = out.analytics
  /\ seq' = out.seq
  /\ inFlight' = out.inFlight
  /\ wallet' = Keep(out.issued)
  /\ resp' = out.resp
  /\ rateLimitStore' = store
  /\ traffic' = history
  /\ creators' = Created(out)
  /\ UNCHANGED <<now, maxRequests, windowMs, boot, run>>

\* one request through Bun.serve's fetch
Send(req, draws) ==
  \E q \in {req}, d \in {draws} :
    \E r \in {fetch(q, d)} :
      /\ Apply(q.body, r.out, r.store,
               IF q.method = "OPTIONS" THEN traffic
               ELSE [traffic EXCEPT ![q.key] = Received(@, r.out.resp.status)])
      /\ sender' = q.key

PostRegister(K) ==
  /\ K # {}
  /\ \E key \in K, username \in ClientNames, email \in ClientEmails, sent \in Sent :
    \* the fields matter only when they are sent
    /\ sent # "json" => username = N_alice /\ email = E_alice
    /\ Send(Wire(sent, Request("POST", <<S_api, S_auth, S_register>>, key, NoHeader,
                               [EmptyBody EXCEPT !.username = username, !.email = email,
                                                 !.password = PW_Demo1234])), NoDraws)

\* a suspended register request resumes after its password hash
RegisterFinish ==
  /\ inFlight # EmptyBag
  /\ \E r \in BagToSet(inFlight) :
    \E out \in {registerResume(r)} :
      /\ Apply(EmptyBody, out, rateLimitStore, traffic)
      /\ sender' = NoKey

\* the credentials the clients try, and the ones of two demo accounts
Logins == ClientNames \X ClientPasswords
DemoLogins == {<<N_demo_user, PW_Demo1234>>, <<N_alice, PW_Demo1234>>}

\* L: the credentials, S: the ways of sending that the clients use
PostLogin(K, L, S) ==
  /\ K # {}
  /\ \E key \in K, cred \in L, sent \in S :
    /\ sent # "json" => cred = <<N_alice, PW_Demo1234>>
    /\ Send(Wire(sent, Request("POST", <<S_api, S_auth, S_login>>, key, NoHeader,
                               [EmptyBody EXCEPT !.username = cred[1],
                                                 !.password = cred[2]])),
            NoDraws)

GetProfile(K) ==
  /\ K # {}
  /\ \E key \in K, auth \in Auths :
    Send(Request("GET", <<S_api, S_auth, S_profile>>, key, auth, EmptyBody), NoDraws)

PostUrls(K) ==
  /\ K # {}
  /\ \E key \in K, auth \in OwnAuths, url \in ClientUrls,
     customCode \in ClientCodes \cup {NoCode}, expiresInDays \in ClientDays,
     first \in GeneratedCodes, again \in GeneratedCodes, sent \in Sent :
    /\ sent # "json" => /\ auth = NoHeader /\ customCode = NoCode /\ expiresInDays = 0
                        /\ first = S_aB3xYz /\ again = first
    \* the draws matter only when they are used: none with a custom code,
    \* the later ones only when the first is taken
    /\ customCode # NoCode => first = S_aB3xYz
    /\ customCode # NoCode \/ ~Found(findUrlByShortCode(first)) => again = first
    /\ Send(Wire(sent, Request("POST", <<S_api, S_urls>>, key, auth,
                               [EmptyBody EXCEPT !.url = url, !.customCode = customCode,
                                                 !.expiresInDays = expiresInDays])),
            [NoDraws EXCEPT !.codes =
               [i \in 1..(MaxAttempts + 1) |-> IF i = 1 THEN first ELSE again]])

GetUrls(K) ==
  /\ K # {}
  /\ \E key \in K, auth \in Auths, ties \in TieOrders :
    \* the order matters only to a request that reaches the query
    /\ auth \in {NoHeader, Bearer(ForgedToken)} => ties = "rowid ASC"
    /\ Send(Request("GET", <<S_api, S_urls>>, key, auth, EmptyBody),
            [NoDraws EXCEPT !.ties = ties])

GetAnalytics(K) ==
  /\ K # {}
  /\ \E key \in K, auth \in OwnAuths, code \in ClientCodes :
    \* the code matters only to a request that passes authenticate
    /\ auth = NoHeader => code = S_github
    /\ Send(Request("GET", <<S_api, S_urls, code, S_analytics>>, key, auth, EmptyBody),
            NoDraws)

DeleteUrl(K) ==
  /\ K # {}
  /\ \E key \in K, auth \in OwnAuths, code \in ClientCodes :
    /\ auth = NoHeader => code = S_github
    /\ Send(Request("DELETE", <<S_api, S_urls, code>>, key, auth, EmptyBody), NoDraws)

\* GET /<code>: the short link (GET /health is the one with code "health")
GetCode(K) ==
  /\ K # {}
  /\ \E key \in K, code \in ClientCodes :
    Send(Request("GET", <<code>>, key, NoHeader, EmptyBody), NoDraws)

GetDocs(K) ==
  /\ K # {}
  /\ \E key \in K : Send(Request("GET", << >>, key, NoHeader, EmptyBody), NoDraws)

Options(K) ==
  /\ K # {}
  /\ \E key \in K :
    Send(Request("OPTIONS", <<S_api, S_urls>>, key, NoHeader, EmptyBody), NoDraws)

\* a day passes
Tick ==
  /\ now < MaxTime
  /\ now' = now + 1
  /\ resp' = NoResp
  /\ traffic' = [k \in Keys |-> Settle(traffic[k], now + 1)]
  /\ received' = Account(EmptyBody)
  /\ sender' = NoKey
  /\ UNCHANGED <<users, urls, analytics, seq, maxRequests, windowMs, rateLimitStore,
                 inFlight, wallet, boot, creators, run>>

\* ------------------------------------------------------------ specifications
\* Spec: the URL endpoints, for clients behind one address who log in to
\* two of the demo accounts, on a seeded store; the rate limiter is
\* configured with a window of 0, with which it admits every request.
Init == InitSeeded /\ Boot({MaxLimit}, {0})

Next ==
  \/ PostLogin({"unknown"}, DemoLogins, {"json"})
  \/ PostUrls({"unknown"})
  \/ GetUrls({"unknown"})
  \/ GetAnalytics({"unknown"})
  \/ DeleteUrl({"unknown"})
  \/ GetCode({"unknown"})
  \/ Tick

Spec == Init /\ [][Next]_vars

\* SpecAuth: the account endpoints, same configuration, for clients who try
\* every credential and every way of sending, on an empty or a seeded store.
NextAuth ==
  \/ PostRegister({"unknown"})
  \/ RegisterFinish
  \/ PostLogin({"unknown"}, Logins, Sent)
  \/ GetProfile({"unknown"})
  \/ Tick

InitAuth == (InitEmpty \/ InitSeeded) /\ Boot({MaxLimit}, {0})

SpecAuth == InitAuth /\ [][NextAuth]_vars

\* SpecRate: the rate limiter with a window of one day and every limit in
\* 0..MaxLimit, for clients behind two addresses, on an empty store.
InitRate == InitEmpty /\ Boot(0..MaxLimit, {1})

NextRate ==
  \/ GetCode(Keys)
  \/ GetDocs(Keys)
  \/ Options(Keys)
  \/ Tick

SpecRate == InitRate /\ [][NextRate]_vars

\* SpecQuota: every endpoint on the seeded store, with a limit of one request
\* per key in a window of one day, so that requests are refused with 429
\* between the ones that reach the controllers.
NextQuota ==
  \/ PostRegister({"unknown"})
  \/ RegisterFinish
  \/ PostLogin({"unknown"}, DemoLogins, {"json"})
  \/ GetProfile({"unknown"})
  \/ PostUrls({"unknown"})
  \/ GetUrls({"unknown"})
  \/ GetAnalytics({"unknown"})
  \/ DeleteUrl({"unknown"})
  \/ GetCode({"unknown"})
  \/ Tick

InitQuota == InitSeeded /\ Boot({1}, {1})

SpecQuota == InitQuota /\ [][NextQuota]_vars

\* SpecCompose: MaxInvocations invocations of one compose(m1..mn), each with
\* a handler of its own, interleaved at their awaits; for every chain of up to
\* MaxChain middlewares and every kind of handler
InitCompose ==
  /\ InitEmpty
  /\ Started({MaxLimit}, {0})
  /\ \E chain \in Chains, handler \in [Invocations -> HandlerKinds] :
       run = [inv \in Invocations |-> Invoke(chain, handler[inv])]

NextCompose ==
  \/ \E inv \in Invocations : Dispatch(inv)
  \/ \E inv \in Invocations : CallHandler(inv)
  \/ \E inv \in Invocations : CallAgain(inv)
  \/ \E inv \in Invocations : Return(inv)
  \/ \E inv \in Invocations : Unwind(inv)

SpecCompose == InitCompose /\ [][NextCompose]_vars

\* SpecRateFair: SpecRate in which the clock keeps running (up to MaxTime) and
\* every key keeps sending requests
SpecRateFair ==
  /\ SpecRate
  /\ WF_vars(Tick)
  /\ \A k \in Keys : WF_vars(GetDocs({k}))

\* -------------------------------------------------------------------- claims
\* C1: a 201 of POST /api/urls stored the row with the user of the request's
\* valid bearer token as its owner, and with owner null when the request
\* carried no valid token.
C1_OwnerIsTokenUser ==
  resp.op = "createShortUrl" /\ resp.status = 201
    => findUrlByShortCode(resp.code).user_id = resp.caller

\* C2: when the user who created a URL with their token asks for its
\* analytics with their token, the answer is 200 with that short code and
\* the row's current click counter as totalClicks.
C2_CreatorReadsAnalytics ==
  /\ resp.op = "getAnalytics"
  /\ resp.caller # Null
  /\ [code |-> resp.code, userId |-> resp.caller] \in creators
  => /\ resp.status = 200
     /\ resp.clicks = findUrlByShortCode(resp.code).clicks

\* C3: when the user who created a URL with their token deletes it with
\* their token, the answer is 200 and the row is gone; a GET of a short code
\* that has no row answers 404.
C3_CreatorDeletes ==
  [][/\ /\ resp'.op = "deleteUrl"
        /\ resp'.caller # Null
        /\ [code |-> resp'.code, userId |-> resp'.caller] \in creators
        => /\ resp'.status = 200
           /\ ~\E u \in urls' : u.short_code = resp'.code
     /\ /\ resp'.op = "redirect"
        /\ ~\E u \in urls : u.short_code = resp'.code
        => resp'.status = 404]_vars

\* C4: a user never gets the analytics of a URL another user owns, nor
\* deletes it: analytics answers 403, delete answers 404, and the row stays
\* as it was.
C4_NoCrossUserAccess ==
  [][\A u \in urls :
       /\ u.short_code = resp'.code
       /\ resp'.caller # Null
       /\ u.user_id # Null
       /\ u.user_id # resp'.caller
       => /\ resp'.op = "getAnalytics" => resp'.status = 403 /\ resp'.clicks = Null
          /\ resp'.op = "deleteUrl" => resp'.status = 404
          /\ resp'.op \in {"getAnalytics", "deleteUrl"} => u \in urls']_vars

C4_Witness ==
  /\ resp.op = "deleteUrl"
  /\ resp.status = 404
  /\ resp.caller # Null
  /\ \E u \in urls : /\ u.short_code = resp.code
                     /\ u.user_id # Null
                     /\ u.user_id # resp.caller

\* C5: no two rows of urls share a short code, and no step changes the short
\* code, the original URL or the owner of a row that exists.
C5_CodesUniqueRowsFixed ==
  [][/\ \A u, v \in urls' : u.short_code = v.short_code => u = v
     /\ \A u \in urls : \A v \in urls' :
          u.id = v.id => /\ v.short_code = u.short_code
                         /\ v.original_url = u.original_url
                         /\ v.user_id = u.user_id]_vars

C5_Witness ==
  /\ resp.op = "createShortUrl"
  /\ resp.status = 409
  /\ Cardinality(urls) = 2

\* the click events of a row
ClicksOf(rows, urlId) == Cardinality({a \in rows : a.url_id = urlId})

\* C6: each redirect of an existing, unexpired short code raises that row's
\* click counter by exactly one and adds exactly one click event for it, and
\* no other step changes a row's counter or its click events; so N redirects
\* in a row raise both by exactly N.
C6_OneClickPerRedirect ==
  [][\A u \in urls : \A v \in urls' :
       u.id = v.id =>
         IF resp'.op = "redirect" /\ resp'.status = 302 /\ resp'.code = u.short_code
         THEN /\ v.clicks = u.clicks + 1
              /\ ClicksOf(analytics', u.id) = ClicksOf(analytics, u.id) + 1
         ELSE /\ v.clicks = u.clicks
              /\ ClicksOf(analytics', u.id) = ClicksOf(analytics, u.id)]_vars

C6_Witness ==
  /\ resp.op = "redirect"
  /\ resp.status = 302
  /\ findUrlByShortCode(resp.code).clicks = 2
  /\ ClicksOf(analytics, findUrlByShortCode(resp.code).id) = 2

\* C7: for every URL that POST /api/urls accepted with 201, with a custom or
\* a generated code, and that has not expired, GET /<shortCode> is answered
\* by the redirect controller with 302 and the stored original URL as Location.
C7_AcceptedCodeRedirects ==
  \A c \in creators :
    ~IsExpired(findUrlByShortCode(c.code)) =>
      \E out \in {handle(Request("GET", <<c.code>>, "unknown", NoHeader, EmptyBody),
                         NoDraws)} :
        /\ out.resp.op = "redirect"
        /\ out.resp.status = 302
        /\ out.resp.url = findUrlByShortCode(c.code).original_url

\* C8: the redirect of a URL whose expiry is earlier than now answers 410 and
\* records no click; the redirect of one whose expiry is later than now
\* answers 302.
C8_ExpiredGone ==
  [][\A u \in urls :
       resp'.op = "redirect" /\ resp'.code = u.short_code /\ u.expires_at # Null
       => /\ u.expires_at < now
             => resp'.status = 410 /\ urls' = urls /\ analytics' = analytics
          /\ u.expires_at > now => resp'.status = 302]_vars

C8_Witness ==
  /\ resp.op = "redirect"
  /\ resp.status = 410
  /\ findUrlByShortCode(resp.code).expires_at # Null
  /\ findUrlByShortCode(resp.code).expires_at < now

\* C9: for every configured limit and every key, maxRequests + 1 non-preflight
\* requests from the key inside one window got at least one 429, and
\* maxRequests or fewer got none.
C9_LimitPlusOneRejected ==
  \A k \in Keys :
    /\ traffic[k].requests >= maxRequests + 1 => traffic[k].rejected
    /\ traffic[k].requests <= maxRequests => ~traffic[k].rejected

\* C10: a registration with valid fields whose username already exists is
\* answered 409 and creates no user, whether its email is new or in use.
C10_TakenUsernameConflicts ==
  [][/\ received'.email # << >>
     /\ isValidUsername(received'.username)
     /\ isValidEmail(received'.email)
     /\ isValidPassword(received'.password)
     /\ Found(findUserByUsername(received'.username))
     => /\ resp'.op = "register"
        /\ resp'.status = 409
        /\ users' = users
        /\ inFlight' = inFlight]_vars

C10_Witness ==
  /\ resp.op = "register"
  /\ resp.status = 409
  /\ Found(findUserByUsername(received.username))
  /\ ~Found(findUserByEmail(received.email))
  /\ isValidEmail(received.email)

\* C11: under any interleaving of concurrent register requests, no two rows of
\* the users table share a username and no two share an email.
C11_UsersUnique ==
  \A u \in users : \A v \in users :
    (u.username = v.username \/ u.email = v.email) => u = v

\* Two register requests for the same account passed the existence checks
\* while both were suspended; the first insert succeeded and the second was
\* aborted by the UNIQUE constraint.
C11_Witness ==
  /\ resp.op = "register" /\ resp.status = 500
  /\ resp.error = "Failed to register user"
  /\ \E u \in users : u.id > boot.users

\* C12: the user object in a response of register, login or profile holds
\* only id, username and email (and the creation time for profile): never
\* the password or its hash.
C12_NoPasswordInResponse ==
  resp.op \in {"register", "login", "getProfile"} /\ resp.user # NoUserObject
  => /\ DOMAIN resp.user =
          IF resp.op = "getProfile" THEN {"id", "username", "email", "created_at"}
          ELSE {"id", "username", "email"}
     /\ \A u \in users :
          /\ resp.user.username # u.password_hash.of
          /\ resp.user.email # u.password_hash.of

\* a successful login returned the user object of a stored user
C12_Witness ==
  /\ resp.op = "login" /\ resp.status = 200
  /\ \E u \in users : u.id = resp.user.id /\ u.password_hash.of = PW_Demo1234

LoginRequest(username, password) ==
  Request("POST", <<S_api, S_auth, S_login>>, "unknown", NoHeader,
          [EmptyBody EXCEPT !.username = username, !.password = password])

\* C13: a login for a username that does not exist and a login for an
\* existing username with a wrong password receive identical responses: the
\* same status 401, the same body and the same headers.
C13_LoginHidesExistence ==
  \A unknown \in ClientNames, known \in ClientNames :
    \A p \in ClientPasswords, q \in ClientPasswords :
      /\ ~Found(findUserByUsername(unknown))
      /\ Found(findUserByUsername(known))
      /\ ~verifyPassword(q, findUserByUsername(known).password_hash)
      => \E a \in {fetch(LoginRequest(unknown, p), NoDraws).out.resp} :
           /\ a = fetch(LoginRequest(known, q), NoDraws).out.resp
           /\ a.status = 401
           /\ a.body = "error"

\* a login with a wrong password for a stored user was answered 401 while
\* another of the clients' usernames is not stored
C13_Witness ==
  /\ resp.op = "login" /\ resp.status = 401
  /\ Found(findUserByUsername(received.username))
  /\ \E n \in ClientNames : ~Found(findUserByUsername(n))

\* C14: every response the server returns (success, 4xx, 429 or 500, the 500
\* of the error boundary included) carries the three CORS headers
\* Allow-Origin, Allow-Methods and Allow-Headers.
C14_EveryResponseHasCors == resp # NoResp => resp.cors

\* C15: every response with an error status (400, 401, 403, 404, 409, 410,
\* 429, 500), from every route including the redirect route, has the
\* structured body {success: false, error} with a non-empty error string.
C15_ErrorsAreStructured ==
  resp.status >= 400 => resp.body = "error" /\ resp.error # ""

\* the routes whose controller reads ctx.body
PostPaths == {<<S_api, S_auth, S_register>>, <<S_api, S_auth, S_login>>, <<S_api, S_urls>>}

\* C16: an exception raised inside the error boundary is converted into one
\* 500 response {success: false, error: <message>} with the exception's
\* message, and no request ends with an exception instead of a response.
C16_ExceptionsBecome500 ==
  /\ ~Thrown(resp)
  /\ \A path \in PostPaths, sent \in Sent :
       \E q \in {Wire(sent, Request("POST", path, "unknown", NoHeader, EmptyBody))} :
         \E inner \in {cors(q, NoDraws)}, outer \in {fetch(q, NoDraws)} :
           IF Thrown(inner.out.resp)
           THEN /\ outer.out.resp.status = 500
                /\ outer.out.resp.body = "error"
                /\ outer.out.resp.error = inner.out.resp.error
                /\ outer.out.resp.error # ""
           ELSE outer = inner

\* a controller threw on an undefined body and the request was answered 500
\* with the exception's message
C16_Witness ==
  /\ resp.op = "errorHandler" /\ resp.status = 500
  /\ resp.error = TypeErrorMessage

\* a path that the pattern matches, with `code` for its parameters
Instantiate(pattern, code) ==
  [i \in 1..Len(pattern) |-> IF IsParam(pattern[i]) THEN code ELSE pattern[i]]

\* a request that matches a route other than the redirect route is
\* dispatched to that route
SpecificRouteWins ==
  \A i \in 1..Len(routes), code \in ClientCodes :
    routes[i].handler # "redirect"
    => match(routes[i].method, Instantiate(routes[i].path, code)).route = routes[i]

\* C17: the catch-all redirect route GET /:code is the last route in
\* registration order, and every request whose method and path match a more
\* specific route (GET /health, GET /, the /api/... routes) is dispatched to
\* that route and not to the redirect controller.
C17_RedirectRouteIsLast ==
  /\ \A i \in 1..Len(routes) :
       \* the table a request was dispatched from
       routes[i].handler = resp.op => routes[Len(routes)].handler = "redirect"
  /\ SpecificRouteWins

\* the headers a client may send: none, a scheme other than Bearer, a forged
\* token, and the tokens the server issued (expired ones among them)
SentAuths == Auths \cup {[Bearer(t) EXCEPT !.scheme = "Basic"] : t \in wallet}

\* C18: on a bearer-protected route (profile, list, analytics, delete) a
\* request with no bearer token is answered 401 "No token provided", one with
\* an invalid or expired token 401 "Invalid or expired token", in both cases
\* by the middleware and with nothing changed; the controller answers only a
\* request whose token the server signed and that has not expired.
C18_ControllerNeedsVerifiedToken ==
  \A i \in {j \in 1..Len(routes) : routes[j].middlewares = <<"authenticate">>} :
    \A path \in {Instantiate(routes[i].path, code) : code \in ClientCodes},
       auth \in SentAuths :
       \E out \in {handle(Request(routes[i].method, path, "unknown", auth, EmptyBody),
                          NoDraws)} :
         IF ~auth.present \/ auth.scheme # "Bearer"
         THEN out = Same(out.resp) /\ out.resp.op = "authenticate"
              /\ out.resp.status = 401 /\ out.resp.error = "No token provided"
         ELSE IF auth.token.sig # "server" \/ auth.token.exp <= now
         THEN out = Same(out.resp) /\ out.resp.op = "authenticate"
              /\ out.resp.status = 401 /\ out.resp.error = "Invalid or expired token"
         ELSE out.resp.op = routes[i].handler

\* a profile request carrying a token of the server that has expired was
\* answered 401 by the middleware
C18_Witness ==
  /\ resp.op = "authenticate" /\ resp.status = 401
  /\ resp.error = "Invalid or expired token"
  /\ \E t \in wallet : t.sig = "server" /\ t.exp <= now

\* C19: every click event references a URL that is present in the store:
\* deleting a URL through the delete endpoint removes its click events too.
C19_ClicksReferenceUrls ==
  \A a \in analytics : \E u \in urls : u.id = a.url_id

\* C20: GET /api/urls authenticated as user U returns exactly the URLs whose
\* owner is U, none of another user and none anonymous, ordered newest first
\* (a URL created later comes before one created earlier).
C20_ListIsOwnersNewestFirst ==
  resp.op = "getUserUrls" /\ resp.status = 200
  => /\ Range(resp.list) = {u.id : u \in {v \in urls : v.user_id = resp.caller}}
     /\ \A i \in 1..Len(resp.list), j \in 1..Len(resp.list) :
          i < j => resp.list[i] > resp.list[j]

\* C22: a request the rate limiter answers with 429 leaves its key's record
\* (count and reset time) as it was and reaches no route: the response is the
\* limiter's own and the tables are untouched.  A request that passes the
\* limiter while its key's window is open raises the key's count by exactly 1
\* and leaves the reset time as it was.
InWindow(record) == record # NoRecord /\ now < record.resetAt

C22_RejectKeepsAdmitCounts ==
  [][sender' \in Keys /\ resp'.op # "cors" =>
       IF resp'.status = 429
       THEN /\ rateLimitStore'[sender'] = rateLimitStore[sender']
            /\ resp'.op = "rateLimit"
            /\ <<users, urls, analytics, seq>>' = <<users, urls, analytics, seq>>
       ELSE InWindow(rateLimitStore[sender']) =>
              /\ rateLimitStore'[sender'].count = rateLimitStore[sender'].count + 1
              /\ rateLimitStore'[sender'].resetAt = rateLimitStore[sender'].resetAt]_vars

C22_Witness ==
  /\ sender \in Keys
  /\ resp.status = 429
  /\ rateLimitStore[sender].count = 2
  /\ now < rateLimitStore[sender].resetAt

\* C23: a request that passes the limiter when the clock has reached its key's
\* reset time is admitted whatever the key's count was, and leaves the key's
\* record at count 1 with the reset time one window after the request; and a
\* key that was answered 429 (while the clock can still advance) is later
\* admitted again.
Blocked(k) == sender = k /\ resp.op = "rateLimit" /\ resp.status = 429

Admitted(k) == sender = k /\ resp.op \notin {"rateLimit", "cors"}

C23_ExpiredWindowAdmits ==
  /\ [][/\ sender' \in Keys
        /\ resp'.op # "cors"
        /\ rateLimitStore[sender'] # NoRecord
        /\ now >= rateLimitStore[sender'].resetAt
        => /\ resp'.status # 429
           /\ rateLimitStore'[sender'] = [count |-> 1, resetAt |-> now + windowMs]]_vars
  /\ \A k \in Keys : (Blocked(k) /\ now < MaxTime) ~> Admitted(k)

C23_Witness ==
  /\ sender \in Keys
  /\ Admitted(sender)
  /\ traffic[sender].refused
  /\ rateLimitStore[sender] = [count |-> 1, resetAt |-> now + windowMs]
  /\ maxRequests = MaxLimit

\* C24: a request from a key leaves the record of every other key as it was,
\* and whether it is answered 429 is decided by its own key's record alone
\* (with the clock and the configured limit), whatever the other keys'
\* records hold, also when the other keys sent requests at the same instant.
C24_KeysAreIsolated ==
  [][sender' \in Keys =>
       /\ \A j \in Keys \ {sender'} : rateLimitStore'[j] = rateLimitStore[j]
       /\ resp'.op # "cors" =>
            (resp'.status = 429 <=>
               /\ InWindow(rateLimitStore[sender'])
               /\ rateLimitStore[sender'].count >= maxRequests)]_vars

C24_Witness ==
  /\ sender \in Keys
  /\ resp.status = 429
  /\ \E j \in Keys \ {sender} :
       /\ traffic[j].opened = now
       /\ traffic[sender].opened = now
       /\ rateLimitStore[j].count < rateLimitStore[sender].count

\* C25: while a key's window is open, the count stored for the key equals the
\* number of the key's requests that passed the limiter in the window, and
\* that number is at most the configured limit.
C25_CountIsAdmittedWithinLimit ==
  \A k \in Keys :
    InWindow(rateLimitStore[k]) =>
      /\ rateLimitStore[k].count = traffic[k].admitted
      /\ traffic[k].admitted <= maxRequests

\* the first half alone: the stored count is the number admitted
C25_CountIsAdmitted ==
  \A k \in Keys :
    InWindow(rateLimitStore[k]) => rateLimitStore[k].count = traffic[k].admitted

\* C26: of register requests that were in flight together (both past the
\* existence checks, suspended at the password hash), the one that completes
\* first creates the user and is answered 201, and one that completes after a
\* request with the same username or email has created its user creates none
\* and is answered 409.
C26_RaceLoserGets409 ==
  [][BagCardinality(inFlight') < BagCardinality(inFlight) =>
       /\ resp'.op = "register"
       /\ IF users' # users THEN resp'.status = 201 ELSE resp'.status = 409]_vars

\* C27: a creation without a custom code uses the first of its first
\* MaxAttempts generated codes that the store does not hold: it answers 201
\* and inserts one row with that code.  When the store holds all of the first
\* MaxAttempts codes it answers 500 and inserts nothing, whatever the code
\* generated after them is.
\* The generated codes tried: one code up to a position, another after it.
DrawsTried ==
  {[i \in 1..(MaxAttempts + 1) |-> IF i <= j THEN a ELSE b] :
     j \in 0..(MaxAttempts + 1), a \in GeneratedCodes, b \in GeneratedCodes}

CreateRequest(customCode) ==
  Request("POST", <<S_api, S_urls>>, "unknown", NoHeader,
          [EmptyBody EXCEPT !.url = U_custom, !.customCode = customCode])

C27_AtMostTenCodesChecked ==
  \A d \in DrawsTried :
    LET out == fetch(CreateRequest(NoCode), [NoDraws EXCEPT !.codes = d]).out
        absent == {i \in 1..MaxAttempts : ~Found(findUrlByShortCode(d[i]))}
    IN IF absent = {}
       THEN /\ out.resp.status = 500
            /\ out.resp.error = "Failed to generate unique code"
            /\ out.urls = urls
       ELSE LET k == CHOOSE i \in absent : \A j \in absent : i <= j
            IN /\ out.resp.status = 201
               /\ out.resp.code = d[k]
               /\ urls \subseteq out.urls
               /\ Cardinality(out.urls) = Cardinality(urls) + 1
               /\ \A u \in out.urls \ urls : u.short_code = d[k]

C27_Witness ==
  /\ resp.op = "createShortUrl"
  /\ resp.status = 500
  /\ resp.error = "Failed to generate unique code"
  /\ \E u \in urls : u.id > boot.urls /\ u.short_code \in GeneratedCodes

\* C28: a creation whose custom code matches the pattern and is held by the
\* store is answered 409 and leaves the tables as they were, whatever codes
\* the generator would return; one whose custom code is free is answered 201
\* with that code and inserts one row, which holds that code.
C28_CustomCodeKeptOrRefused ==
  \A c \in ClientCodes, g \in GeneratedCodes :
    isValidCustomCode(c) =>
      LET out == fetch(CreateRequest(c),
                       [NoDraws EXCEPT !.codes = [i \in 1..(MaxAttempts + 1) |-> g]]).out
      IN IF Found(findUrlByShortCode(c))
         THEN /\ out.resp.status = 409
              /\ out.urls = urls
              /\ out.analytics = analytics
              /\ out.users = users
              /\ out.seq = seq
         ELSE /\ out.resp.status = 201
              /\ out.resp.code = c
              /\ urls \subseteq out.urls
              /\ Cardinality(out.urls) = Cardinality(urls) + 1
              /\ \A u \in out.urls \ urls : u.short_code = c

C28_Witness ==
  /\ resp.op = "createShortUrl"
  /\ resp.status = 409
  /\ \E u \in urls : u.id > boot.urls /\ u.short_code \in ClientCodes

\* C29: register applies six checks in this order: all fields present,
\* username shape, email shape, password strength, username not stored, email
\* not stored.  A request that fails some of them is answered with the status
\* and the message of the first one it fails (400 for the first four, 409 for
\* the last two), creates no user and is not suspended.
N_ab == <<"a", "b">>

TriedNames == {<< >>, N_ab, N_demo_user, N_alice}

TriedEmails == {<< >>, E_nodot, E_demo, E_alice}

TriedPasswords == {<< >>, PW_Wrong, PW_Demo1234}

RegisterRequest(username, email, password) ==
  Request("POST", <<S_api, S_auth, S_register>>, "unknown", NoHeader,
          [EmptyBody EXCEPT !.username = username, !.email = email,
                            !.password = password])

RegisterChecks(username, email, password) ==
  << [fails |-> username = << >> \/ email = << >> \/ password = << >>,
      status |-> 400, error |-> "All fields are required"],
     [fails |-> ~isValidUsername(username), status |-> 400,
      error |-> "Username must be 3-20 characters, alphanumeric and underscores only"],
     [fails |-> ~isValidEmail(email), status |-> 400, error |-> "Invalid email format"],
     [fails |-> ~isValidPassword(password), status |-> 400,
      error |-> "Password must be at least 8 characters with uppercase, lowercase, and number"],
     [fails |-> \E u \in users : u.username = username, status |-> 409,
      error |-> "Username already exists"],
     [fails |-> \E u \in users : u.email = email, status |-> 409,
      error |-> "Email already exists"] >>

C29_FirstFailingCheckWins ==
  \A username \in TriedNames, email \in TriedEmails, password \in TriedPasswords :
    LET checks == RegisterChecks(username, email, password)
        failing == {i \in 1..Len(checks) : checks[i].fails}
        out == fetch(RegisterRequest(username, email, password), NoDraws).out
    IN failing # {} =>
         LET first == CHOOSE i \in failing : \A j \in failing : i <= j
         IN /\ out.resp.op = "register"
            /\ out.resp.status = checks[first].status
            /\ out.resp.error = checks[first].error
            /\ out.users = users
            /\ out.seq = seq
            /\ out.inFlight = inFlight

\* a registration with a stored username and a malformed email was answered
\* by the email shape check, which comes first
C29_Witness ==
  /\ resp.op = "register"
  /\ resp.status = 400
  /\ resp.error = "Invalid email format"
  /\ Found(findUserByUsername(received.username))

\* C30: a POST to register, login or create-URL sent without a JSON
\* Content-Type passes jsonParser (the answer is not its 400 "Invalid JSON
\* body") and is answered by the controller with a 400 validation error, not
\* with a 500.
C30_NoContentTypeGets400 ==
  \A path \in PostPaths :
    \E q \in {Wire("bare", Request("POST", path, "unknown", NoHeader, EmptyBody))} :
      \E out \in {fetch(q, NoDraws).out} :
        /\ out.resp.error # "Invalid JSON body"
        /\ out.resp.op \in {"register", "login", "createShortUrl"}
        /\ out.resp.status = 400

\* the first half alone: the request passes the body parser and reaches the
\* controller, with the store left as it was
C30_PassesBodyParser ==
  \A path \in PostPaths :
    \E q \in {Wire("bare", Request("POST", path, "unknown", NoHeader, EmptyBody))} :
      \E out \in {cors(q, NoDraws).out} :
        /\ out.resp.error # "Invalid JSON body"
        /\ out.resp.op \in {"register", "login", "createShortUrl"}
        /\ out.users = users /\ out.urls = urls

\* C21: when the promise of compose(m1..mn)(ctx, h) has settled, the logic
\* that ran is: the pre-logic of m1..mn in that order, then h, then the
\* post-logic of mn..m1 in that order; or, when mi is the first middleware
\* that returns without calling next, the pre-logic of m1..mi, neither a later
\* middleware nor h, and then the post-logic of m(i-1)..m1.
\* The first middleware of the chain that does not call next (n + 1 if none)
FirstReturn(chain) ==
  IF \E i \in 1..Len(chain) : chain[i] = "return"
  THEN CHOOSE i \in 1..Len(chain) :
         /\ chain[i] = "return"
         /\ \A j \in 1..(i - 1) : chain[j] # "return"
  ELSE Len(chain) + 1

\* the post-logic of m(k)..m1, of the middlewares that have code after next()
PostLogic(chain, k) ==
  LET down == [x \in 1..k |-> Ran("post", k + 1 - x)]
  IN SelectSeq(down, LAMBDA e : chain[e.i] = "next")

OnionOrder(chain) ==
  LET n == Len(chain)
      k == FirstReturn(chain)
  IN IF k = n + 1
     THEN [i \in 1..n |-> Ran("pre", i)] \o <<Ran("h", 0)>> \o PostLogic(chain, n)
     ELSE [i \in 1..k |-> Ran("pre", i)] \o PostLogic(chain, k - 1)

C21_ComposeOrder ==
  \A inv \in Invocations :
    Settled(inv) /\ "twice" \notin Range(run[inv].chain) =>
      SelectSeq(run[inv].trace, LAMBDA e : e.ev \in {"pre", "h", "post"})
        = OnionOrder(run[inv].chain)

\* the same, for the invocations in which the handler does not throw
C21_ComposeOrderUnlessThrown ==
  \A inv \in Invocations :
    /\ Settled(inv)
    /\ "twice" \notin Range(run[inv].chain)
    /\ run[inv].handler = "returns"
    => run[inv].trace = OnionOrder(run[inv].chain)

\* C31: for a caller with a valid token, the DELETE of a code whose row
\* another user owns and the DELETE of a code that has no row are answered
\* alike: status 404, the same body and headers; and both leave the tables as
\* they were.
\* What a client sees of a response: all but the request's own caller and code
OnTheWire(r) ==
  [status |-> r.status, body |-> r.body, error |-> r.error, url |-> r.url,
   clicks |-> r.clicks, user |-> r.user, list |-> r.list, cors |-> r.cors]

DeleteRequest(code, token) ==
  Request("DELETE", <<S_api, S_urls, code>>, "unknown", Bearer(token), EmptyBody)

C31_DeleteHidesExistence ==
  \A t \in wallet, c \in ClientCodes, d \in ClientCodes :
    /\ verifyToken(t) # NoUser
    /\ Found(findUrlByShortCode(c))
    /\ findUrlByShortCode(c).user_id # Null
    /\ findUrlByShortCode(c).user_id # t.userId
    /\ ~Found(findUrlByShortCode(d))
    => \E a \in {fetch(DeleteRequest(c, t), NoDraws).out},
          b \in {fetch(DeleteRequest(d, t), NoDraws).out} :
         /\ a.resp.status = 404
         /\ OnTheWire(a.resp) = OnTheWire(b.resp)
         /\ <<a.users, a.urls, a.analytics>> = <<users, urls, analytics>>
         /\ <<b.users, b.urls, b.analytics>> = <<users, urls, analytics>>

\* a DELETE of another user's row was answered 404 while one of the clients'
\* codes has no row
C31_Witness ==
  /\ resp.op = "deleteUrl"
  /\ resp.status = 404
  /\ \E u \in urls : /\ u.short_code = resp.code
                     /\ u.user_id \notin {Null, resp.caller}
  /\ \E d \in ClientCodes : ~Found(findUrlByShortCode(d))

\* C32: an OPTIONS request, to a path with a route or without one and from
\* any key, is answered 204 with the CORS headers by cors itself: the rate
\* limiter's store and the tables stay as they were and the answer is never a
\* 429, also when the key has used up its limit.
OptionsPaths == {<< >>, <<S_github>>, <<S_api, S_urls>>, <<S_api, S_auth, S_login>>,
                 <<S_api, S_urls, S_github, S_analytics, S_api>>}

C32_PreflightBypassesLimiter ==
  \A k \in Keys, path \in OptionsPaths :
    \E r \in {fetch(Request("OPTIONS", path, k, NoHeader, EmptyBody), NoDraws)} :
      /\ r.out.resp.op = "cors"
      /\ r.out.resp.status = 204
      /\ r.out.resp.cors
      /\ r.store = rateLimitStore
      /\ <<r.out.users, r.out.urls, r.out.analytics, r.out.seq>>
           = <<users, urls, analytics, seq>>

\* a preflight was answered 204 for a key that is over its limit and has been
\* answered 429 in the same window
C32_Witness ==
  /\ sender \in Keys
  /\ resp.op = "cors"
  /\ resp.status = 204
  /\ InWindow(rateLimitStore[sender])
  /\ rateLimitStore[sender].count >= maxRequests
  /\ traffic[sender].rejected

\* C33: a creation with expiresInDays = N > 0 stores the expiry now + N days,
\* and one with expiresInDays absent, 0 or negative stores none; the redirect
\* controller answers 302 for a row before its expiry, 410 after it, and 302,
\* never 410, for a row without expiry.
TriedDays == {0 - 1, 0, 1, 2}

ProfileRequest(token) ==
  Request("GET", <<S_api, S_auth, S_profile>>, "unknown", Bearer(token), EmptyBody)

C34_TokenLivesItsTerm ==
  /\ [][\A t \in wallet' \ wallet :
          /\ resp'.op \in {"register", "login"}
          /\ t.exp = now + JwtExpiresIn]_vars
  /\ [](\A t \in wallet :
          \E r \in {fetch(ProfileRequest(t), NoDraws).out.resp} :
            /\ now < t.exp => r.op = "getProfile" /\ r.status = 200
            /\ now > t.exp => r.op = "authenticate" /\ r.status = 401)

\* after the clients received a token, another user logged in, and the token
\* has not expired
C34_Witness ==
  /\ resp.op = "login"
  /\ resp.status = 200
  /\ \E t \in wallet : t.userId # resp.user.id /\ now < t.exp

\* a profile request was refused after the expiry of the clients' token
C34_Expired ==
  /\ resp.op = "authenticate"
  /\ \E t \in wallet : now > t.exp

\* C35: in every state every URL's click counter equals the number of click
\* events that reference the URL, and no step lowers the counter of a URL
\* that stays.
C35_CounterMatchesClickRows ==
  /\ [](\A u \in urls : u.clicks = ClicksOf(analytics, u.id))
  /\ [][\A u \in urls : \A v \in urls' : u.id = v.id => v.clicks >= u.clicks]_vars

\* a URL was redirected twice after start-up
C35_Witness ==
  /\ resp.op = "redirect"
  /\ resp.status = 302
  /\ \E u \in urls :
       /\ u.short_code = resp.code
       /\ u.clicks >= 2
       /\ Cardinality({a \in analytics : a.url_id = u.id /\ a.id > boot.analytics}) >= 2

\* C36: in an invocation of a composed chain, the second call of next() by a
\* middleware is answered with the error "next() called multiple times" and
\* runs nothing, so the inner handler runs at most once; and an invocation
\* gets that error only for a second call of its own, whatever other
\* invocations of the same chain are in progress.
HandlerRuns(inv) ==
  Cardinality({k \in 1..Len(run[inv].trace) : run[inv].trace[k].ev = "h"})

C36_SecondNextIsRefused ==
  /\ [](\A inv \in Invocations :
          /\ run[inv].error = MultipleCalls => run[inv].called # {}
          /\ HandlerRuns(inv) <= 1)
  /\ [][\A inv \in Invocations :
          /\ run[inv].mode = "call"
          /\ run[inv].stack # << >>
          /\ run[inv].stack[Len(run[inv].stack)] \in run[inv].called
          /\ run'[inv] # run[inv]
          => /\ run'[inv].mode = "throw"
             /\ run'[inv].error = MultipleCalls
             /\ run'[inv].trace = run[inv].trace
             /\ run'[inv].stack = run[inv].stack]_vars

\* an invocation whose middleware called next() twice has ended with the
\* error, its handler having run once, while another invocation of the chain
\* is under way
C36_Witness ==
  \E inv \in Invocations, other \in Invocations :
    /\ other # inv
    /\ Settled(inv)
    /\ run[inv].error = MultipleCalls
    /\ HandlerRuns(inv) = 1
    /\ run[other].index >= 0
    /\ ~Settled(other)

\* C37: for a URL stored without owner and any caller with a valid token, the
\* delete endpoint answers 404 and leaves the tables as they were, and the
\* analytics endpoint answers 403 without data; and no step removes such a
\* URL or gives it an owner.
AnalyticsRequest(code, token) ==
  Request("GET", <<S_api, S_urls, code, S_analytics>>, "unknown", Bearer(token),
          EmptyBody)

C37_AnonymousUrlStays ==
  /\ [](\A u \in urls, t \in wallet :
          u.user_id = Null /\ verifyToken(t) # NoUser =>
            \E d \in {fetch(DeleteRequest(u.short_code, t), NoDraws).out},
               a \in {fetch(AnalyticsRequest(u.short_code, t), NoDraws).out} :
              /\ d.resp.op = "deleteUrl" /\ d.resp.status = 404
              /\ <<d.urls, d.analytics>> = <<urls, analytics>>
              /\ a.resp.op = "getAnalytics" /\ a.resp.status = 403
              /\ a.resp.clicks = Null)
  /\ [][\A u \in urls :
          u.user_id = Null =>
            \E v \in urls' : /\ v.id = u.id
                              /\ v.short_code = u.short_code
                              /\ v.user_id = Null]_vars

\* the delete of a URL created through the API, which has no owner, was
\* answered 404 to a caller with a valid token
C37_Witness ==
  /\ resp.op = "deleteUrl"
  /\ resp.status = 404
  /\ resp.caller # Null
  /\ \E u \in urls : /\ u.short_code = resp.code
                     /\ u.user_id = Null
                     /\ u.id > boot.urls

\* C38: a row whose expiry has passed stays in the table with its code and its
\* expiry at every step; while it is there, a redirect of its code that the
\* redirect controller answers is answered 410, and a create request that asks
\* for its code as customCode is answered 409 and stores nothing.
C38_ExpiredCodeStaysTaken ==
  /\ [][\A u \in urls :
          u.expires_at # Null /\ now > u.expires_at =>
            \E v \in urls' : /\ v.id = u.id
                             /\ v.short_code = u.short_code
                             /\ v.expires_at = u.expires_at]_vars
  /\ [](\A u \in urls :
          u.expires_at # Null /\ now > u.expires_at =>
            \E r \in {fetch(Request("GET", <<u.short_code>>, "unknown", NoHeader,
                                     EmptyBody), NoDraws).out},
               c \in {fetch(CreateRequest(u.short_code), NoDraws).out} :
              /\ r.resp.op = "redirect" => r.resp.status = 410
              /\ r.resp.status # 404
              /\ r.urls = urls
              /\ c.resp.op = "createShortUrl" /\ c.resp.status = 409
              /\ c.urls = urls)

\* a create request that asked for the code of a row whose expiry had passed
\* was answered 409
C38_Witness ==
  /\ resp.op = "createShortUrl"
  /\ resp.status = 409
  /\ \E u \in urls : /\ u.short_code = received.customCode
                     /\ u.expires_at # Null
                     /\ now > u.expires_at

\* C39: a step whose response has status 400, 401, 403, 404, 409, 410 or 429
\* leaves the three tables and their AUTOINCREMENT counters as they were.
Refusals == {400, 401, 403, 404, 409, 410, 429}

C39_RefusalsChangeNothing ==
  [][resp'.status \in Refusals => UNCHANGED <<users, urls, analytics, seq>>]_vars

\* a request was refused by the rate limiter after a row had been created
\* through the API and a click on it recorded
C39_Witness ==
  /\ resp.status = 429
  /\ \E u \in urls : u.id > boot.urls /\ u.clicks > 0
  /\ analytics # {}

====
